---- MODULE Spec2Model ----
(***************************************************************************)
(* Model of the EPUB indexing and metadata cache engine of                 *)
(* crosspoint-reader: Epub::load() (lib/Epub/Epub.cpp) driving the         *)
(* BookMetadataCache builder/reader, with the cache directory on storage.  *)
(* Epub.cpp is translated from the source.  BookMetadataCache and the      *)
(* structural parsers are not part of the source tree at hand; they are    *)
(* modelled from their specification (sections 3, 4.1, 4.2) and from the   *)
(* calls Epub.cpp makes to them.                                           *)
(***************************************************************************)
EXTENDS Integers, Sequences, FiniteSets, TLC

\* ------------------------------------------------------------------ bounds
\* Most spine entries the content.opf parser pushes in one OPF pass.
MaxSpine == 2
\* Most TOC entries one nav / NCX parse pushes.
MaxToc == 2
\* Longest spine and TOC of the indexes the queries are applied to.
MaxIndexSpine == 3
MaxIndexToc == 2
\* Fractions read within a spine item are k / FracDen, k in 0..FracDen.
FracDen == 2

\* ------------------------------------------------------------------- data
\* CoreMetadata values an archive's manifest can carry.  An href is the
\* sequence of its characters; these manifests name no cover item.
Titles == {"A", "B"}
Metas == [title : Titles, coverItemHref : {<<>>}]
EmptyMeta == [title |-> "", coverItemHref |-> <<>>]

\* Archive paths the manifest names for the nav / NCX documents and the CSS.
NavHref == "OEBPS/nav.xhtml"
NcxHref == "OEBPS/toc.ncx"
CssHref == "OEBPS/style.css"

\* Scratch files Epub.cpp creates in the cache directory, and the files of
\* the cache's two intermediate streams.
TmpNavPath == "toc.nav"
TmpNcxPath == "toc.ncx"
TmpSpineBin == "spine.bin.tmp"
TmpTocBin == "toc.bin.tmp"

\* Spine entry k of a manifest has href k; TOC entry k of a nav / NCX document
\* targets href k, so it resolves iff the spine has at least k entries.
\* Inflated size of the spine item with href h.
ItemSize(h) == h * 500

\* book.bin on storage: absent, present but not loadable, or a finalized index.
NoFile == [kind |-> "none"]
BadFile == [kind |-> "bad"]
\* An intermediate stream of the builder (spine / TOC): whether it has been
\* opened, and the entries streamed into it so far.
NoTmp == [exists |-> FALSE, entries |-> <<>>]
EmptyTmp == [exists |-> TRUE, entries |-> <<>>]

\* ---------------------------------------------------- BookMetadataCache
\* A BookMetadataCache object as Epub.cpp constructs it.
FreshBmc ==
  [loaded |-> FALSE, buildMode |-> FALSE, coreMetadata |-> EmptyMeta,
   spine |-> <<>>, toc |-> <<>>, spineTmp |-> NoTmp, tocTmp |-> NoTmp]

RECURSIVE SumSizes(_, _)
\* Prefix sum of the inflated sizes of spine entries 1..i.
SumSizes(hrefs, i) ==
  IF i = 0 THEN 0 ELSE SumSizes(hrefs, i - 1) + ItemSize(hrefs[i])

\* Position (0-based) of the first spine entry with this href, or -1.
SpineIndexOf(hrefs, h) ==
  IF \E i \in 1..Len(hrefs) : hrefs[i] = h
  THEN (CHOOSE i \in 1..Len(hrefs) :
          hrefs[i] = h /\ \A j \in 1..(i - 1) : hrefs[j] # h) - 1
  ELSE -1

\* TOC table: every entry with its spineIndex resolved by exact href match.
ResolveToc(hrefs, entries) ==
  [t \in 1..Len(entries) |->
     [src |-> entries[t].src, href |-> entries[t].href,
      spineIndex |-> SpineIndexOf(hrefs, entries[t].href)]]

\* Index (0-based) of the first TOC entry that resolves to spine position s, or -1.
TocIndexOf(toc, s) ==
  IF \E t \in 1..Len(toc) : toc[t].spineIndex = s
  THEN (CHOOSE t \in 1..Len(toc) :
          toc[t].spineIndex = s /\ \A u \in 1..(t - 1) : toc[u].spineIndex # s) - 1
  ELSE -1

\* The cross-reference and size-aggregation pass of buildBookBin: the values
\* the finalized index holds for this metadata, spine stream and TOC stream.
ComputeIndex(meta, hrefs, entries) ==
  LET toc == ResolveToc(hrefs, entries) IN
  [coreMetadata |-> meta,
   spine |-> [i \in 1..Len(hrefs) |->
                [href |-> hrefs[i], cumulativeSize |-> SumSizes(hrefs, i),
                 tocIndex |-> TocIndexOf(toc, i - 1)]],
   toc |-> toc]

\* The finalized binary index as written to book.bin: header counts, then
\* the metadata and the two tables.
WriteBookBin(idx) ==
  [kind |-> "index", spineCount |-> Len(idx.spine), tocCount |-> Len(idx.toc),
   coreMetadata |-> idx.coreMetadata, spine |-> idx.spine, toc |-> idx.toc]

\* BookMetadataCache::load(): succeeds iff book.bin is a finalized index.
CacheLoadable(f) == f.kind = "index"

\* The object after load(): the header counts bound the tables read back.
BmcLoad(f) ==
  IF CacheLoadable(f)
  THEN [loaded |-> TRUE, buildMode |-> FALSE, coreMetadata |-> f.coreMetadata,
        spine |-> SubSeq(f.spine, 1, f.spineCount),
        toc |-> SubSeq(f.toc, 1, f.tocCount), spineTmp |-> NoTmp, tocTmp |-> NoTmp]
  ELSE FreshBmc

\* createSpineEntry / createTocEntry: the parser pushes n entries with hrefs
\* 1..n into the intermediate stream; a cache that is not building, or whose
\* stream is not open, ignores the push.
PushEntries(b, tmp, new) ==
  IF b.buildMode /\ tmp.exists
  THEN [tmp EXCEPT !.entries = tmp.entries \o new]
  ELSE tmp

SpinePushes(n) == [k \in 1..n |-> k]
TocPushes(src, n) == [k \in 1..n |-> [src |-> src, href |-> k]]

\* ------------------------------------------------------------------ state
VARIABLES
  archiveMeta,     \* CoreMetadata in the manifest of the EPUB at `filepath`
  cacheDir,        \* the cache directory exists
  bookBin,         \* book.bin in the cache directory
  scratch,         \* transient files present in the cache directory
  cssCache,        \* css_rules.cache: "valid", or "absent" (none that loads)
  pc,              \* position inside Epub::load ("idle": no call yet)
  buildIfMissing,  \* argument of the running load()
  skipLoadingCss,  \* argument of the running load()
  hit,             \* load() is on its cache-hit path
  bookMetadata,    \* local BookMetadata of load()
  tocParsed,       \* local of load()
  tocNavItem,      \* Epub field
  tocNcxItem,      \* Epub field
  cssFiles,        \* Epub field
  bmc,             \* Epub::bookMetadataCache
  steps,           \* history: steps the running load() has executed
  result,          \* history: "none" until load() returns, then "true"/"false"
  failed,          \* history: the step of the running load() that failed
  tocHist,         \* history: outcome of the nav and of the NCX parse
  built,           \* history: what buildBookBin computed in the running load()
  buildOpen,       \* history: a build began and buildBookBin has not completed
  first,           \* history: result of the first successful load()
  second,          \* history: the running load() follows it, nothing modified
  archiveItems,    \* paths of the image items the archive holds
  files,           \* the cover and thumbnail bitmaps in the cache directory
  q,               \* history: the last query, asset call or CSS pass and what it did
  ble,             \* BluetoothManager, the NimBLE link and the main task's position
  tocPass,         \* the TOC pass of load(), chunk by chunk
  keys,            \* BluetoothManager's keyboard state and the callbacks it made
  input,           \* MappedInputManager's virtual buttons and the main loop's frames
  http             \* HttpDownloader::downloadToFile, its stream and destination

vars ==
  <<archiveMeta, cacheDir, bookBin, scratch, cssCache, pc,
    buildIfMissing, skipLoadingCss, hit, bookMetadata, tocParsed, tocNavItem,
    tocNcxItem, cssFiles, bmc, steps, result, failed, tocHist, built,
    buildOpen, first, second, archiveItems, files, q, ble, tocPass, keys,
    input, http>>

\* What belongs to no Epub: Bluetooth, the input manager, the downloader; and
\* the chunk-level view of the TOC pass.
offEpub == <<ble, tocPass, keys, input, http>>

\* What Epub::load neither reads nor writes.
beyondLoad == <<archiveItems, files, q, offEpub>>

storage == <<cacheDir, bookBin, scratch, cssCache>>
frame == <<buildIfMissing, skipLoadingCss>>
fields == <<tocNavItem, tocNcxItem, cssFiles>>

NoTocHist ==
  [nav |-> "not tried", ncx |-> "not tried", navPushed |-> 0, ncxPushed |-> 0]
NoBuilt == [set |-> FALSE]
\* No query or asset call made yet.
NoCall == [op |-> "none"]

\* BluetoothManager as constructed: initialized, enabled and connected are
\* false and pServer is null; NimBLE holds no link and does not advertise;
\* the main task is in none of the manager's functions.  idle is the time
\* in ms since lastActivityTime was set.
BleOff ==
  [initialized |-> FALSE, enabled |-> FALSE, connected |-> FALSE,
   server |-> FALSE, advertising |-> FALSE, link |-> "none", idle |-> 0,
   at |-> "loop", connects |-> 0]

\* No TOC pass followed chunk by chunk.
NoTocPass == [at |-> "none"]

\* BluetoothManager's keyboard state as constructed: no key, keyProcessed
\* true, no callback registered.  fresh: lastActivityTime is the present
\* millis().  History: what the last event was, the key of the current run
\* of presses, whether a release ended it, and how often each callback was
\* given a press in the run.
KeysOff ==
  [modifiers |-> 0, lastKeyCode |-> 0, keyProcessed |-> TRUE,
   button |-> FALSE, char |-> FALSE, special |-> FALSE, fresh |-> FALSE,
   last |-> "none", runKey |-> 0, runOpen |-> FALSE,
   calls |-> [b \in {"button", "char", "special"} |-> "none"]]

\* MappedInputManager as constructed: the three virtual button bytes are
\* 0 (kept as the sets of their bits), and the main loop is about to call
\* update().  History: since, the presses injected since the events were
\* last cleared; unseen, those of them no wasPressed() has reported; lost,
\* presses cleared unseen; late, presses reported with no injection since
\* the clearing.
InputOff ==
  [virtualButtonState |-> {}, virtualButtonPressedEvents |-> {},
   virtualButtonReleasedEvents |-> {}, at |-> "update",
   since |-> {}, unseen |-> {}, lost |-> {}, late |-> {}]

\* No download begun: nothing at the destination, no connection.
\* dest: the file at destPath; avail: bytes the stream holds; toCome: bytes
\* the server has yet to send; open: the connection is up.  History: opened,
\* openFileForWrite succeeded; received, bytes readBytes returned.
HttpOff ==
  [at |-> "idle", r |-> "none", header |-> -1, contentLength |-> 0,
   downloaded |-> 0, dest |-> [exists |-> FALSE, size |-> 0],
   avail |-> 0, toCome |-> 0, open |-> FALSE, opened |-> FALSE,
   received |-> 0]
\* A file that does not exist, and the cache directory without any bitmap.
Absent == [exists |-> FALSE, bytes |-> <<>>]
AssetPaths == {"cover.bmp", "cover_crop.bmp", "thumb.bmp"}
NoFiles == [p \in AssetPaths |-> Absent]
NoFirst == [set |-> FALSE]
Tables(b) == [coreMetadata |-> b.coreMetadata, spine |-> b.spine, toc |-> b.toc]

Init ==
  /\ archiveMeta \in Metas
  /\ cacheDir = FALSE
  /\ bookBin = NoFile
  /\ scratch = {}
  /\ cssCache = "absent"
  /\ pc = "idle"
  /\ buildIfMissing = TRUE
  /\ skipLoadingCss = FALSE
  /\ hit = FALSE
  /\ bookMetadata = EmptyMeta
  /\ tocParsed = FALSE
  /\ tocNavItem = ""
  /\ tocNcxItem = ""
  /\ cssFiles = <<>>
  /\ bmc = FreshBmc
  /\ steps = <<>>
  /\ result = "none"
  /\ failed = "none"
  /\ tocHist = NoTocHist
  /\ built = NoBuilt
  /\ buildOpen = FALSE
  /\ first = NoFirst
  /\ second = FALSE
  /\ archiveItems = {}
  /\ files = NoFiles
  /\ q = NoCall
  /\ ble = BleOff
  /\ tocPass = NoTocPass
  /\ keys = KeysOff
  /\ input = InputOff
  /\ http = HttpOff

\* ------------------------------------------------------- control helpers
\* load() returns v with the cache object b; the first successful load is
\* remembered.
Ret(v, b) ==
  /\ pc' = "done"
  /\ result' = v
  /\ first' = IF v = "true" /\ ~first.set
              THEN [set |-> TRUE, tables |-> Tables(b)] ELSE first

Goto(p) == pc' = p /\ UNCHANGED <<result, first>>

\* Continue at p, where p is a position of load() or one of its returns.
Continue(p, b) ==
  IF p = "return false" THEN Ret("false", b)
  ELSE IF p = "return true" THEN Ret("true", b)
  ELSE Goto(p)

Did(step, ok) ==
  /\ steps' = Append(steps, step)
  /\ failed' = IF ok THEN failed ELSE step

\* Epub::loadCssRulesFromCache
LoadCssRulesFromCache == cssCache = "valid"

\* --------------------------------------------- control flow of Epub::load
\* After the first bookMetadataCache->load(): return on a hit (re-reading the
\* manifest for the CSS file list when the CSS rule cache is missing), refuse
\* to build when not allowed, build otherwise.
\* Variant: a hit whose CSS rule cache is missing falls through to a rebuild.
AfterTryCacheRebuild(loaded, cssOk) ==
  IF loaded /\ (skipLoadingCss \/ cssOk) THEN "return true"
  ELSE IF ~buildIfMissing THEN "return false" ELSE "beginWrite"

\* Variant: a miss is followed by a build whether allowed or not.
AfterTryCacheBuilding(loaded, cssOk) ==
  IF loaded
  THEN IF ~skipLoadingCss /\ ~cssOk THEN "findContentOpf" ELSE "return true"
  ELSE "beginWrite"

AfterTryCache(loaded, cssOk) ==
  IF loaded
  THEN IF ~skipLoadingCss /\ ~cssOk THEN "findContentOpf" ELSE "return true"
  ELSE IF ~buildIfMissing THEN "return false" ELSE "beginWrite"

AfterBeginWrite(ok) == IF ok THEN "beginContentOpfPass" ELSE "return false"

AfterBeginContentOpfPass(ok) == IF ok THEN "findContentOpf" ELSE "return false"

\* Variant: a manifest that cannot be located ends load() on either path.
AfterFindContentOpfFileStrict(ok) ==
  IF ok THEN "parseContentOpf" ELSE "return false"

\* parseContentOpf returns false when the container cannot be located; the
\* cache-hit caller continues with parseCssFiles, the build caller returns.
AfterFindContentOpfFile(ok) ==
  IF ok THEN "parseContentOpf" ELSE IF hit THEN "parseCss" ELSE "return false"

\* Variant: the result of parseContentOpf is not looked at.
AfterParseContentOpfUnchecked(ok) ==
  IF hit THEN "parseCss" ELSE "endContentOpfPass"

AfterParseContentOpf(ok) ==
  IF hit THEN "parseCss" ELSE IF ok THEN "endContentOpfPass" ELSE "return false"

AfterEndContentOpfPass(ok) == IF ok THEN "beginTocPass" ELSE "return false"

AfterBeginTocPass(ok) == IF ok THEN "parseTocNav" ELSE "return false"

\* The nav document is tried when the manifest named one.
TryNav == tocNavItem # ""

\* Variant: the NCX document is tried whenever the manifest named one.
TryNcxAlways(parsed) == tocNcxItem # ""

\* The NCX document is tried when no TOC is parsed yet and the manifest named one.
TryNcx(parsed) == ~parsed /\ tocNcxItem # ""

\* Variant: a book without a parsed TOC is refused.
AfterTocParseRequired(parsed) ==
  IF parsed THEN "endTocPass" ELSE "return false"

\* With or without a parsed TOC the build goes on to endTocPass.
AfterTocParse(parsed) == "endTocPass"

\* Variant: the result of endTocPass is not looked at.
AfterEndTocPassUnchecked(ok) == "endWrite"

AfterEndTocPass(ok) == IF ok THEN "endWrite" ELSE "return false"

\* Variant: the result of endWrite is not looked at.
AfterEndWriteUnchecked(ok) == "buildBookBin"

AfterEndWrite(ok) == IF ok THEN "buildBookBin" ELSE "return false"

AfterBuildBookBin(ok) == IF ok THEN "cleanup" ELSE "return false"

\* A failed cleanupTmpFiles is logged and ignored.
AfterCleanup(ok) == "reload"

\* Variant: the result of the verifying reload is not looked at.
AfterReloadUnchecked(ok) ==
  IF ~skipLoadingCss THEN "parseCss" ELSE "return true"

AfterReload(ok) ==
  IF ~ok THEN "return false"
  ELSE IF ~skipLoadingCss THEN "parseCss" ELSE "return true"

AfterParseCss == "return true"

\* Variant: buildBookBin is handed a default-constructed BookMetadata.
BuildBookBinMetadataDefault == EmptyMeta

\* The metadata load() hands to buildBookBin.
BuildBookBinMetadata == bookMetadata

\* ------------------------------------------------------------- load steps
\* load(buildIfMissing, skipLoadingCss) is called: both members are reset.
LoadBegin ==
  /\ pc \in {"idle", "done"}
  /\ \E bim \in BOOLEAN, skip \in BOOLEAN :
       /\ buildIfMissing' = bim
       /\ skipLoadingCss' = skip
  /\ pc' = "tryCache"
  /\ bmc' = FreshBmc
  /\ hit' = FALSE
  /\ bookMetadata' = EmptyMeta
  /\ tocParsed' = FALSE
  /\ steps' = <<>>
  /\ result' = "none"
  /\ failed' = "none"
  /\ tocHist' = NoTocHist
  /\ built' = NoBuilt
  /\ second' = first.set
  /\ UNCHANGED <<archiveMeta, storage, fields, buildOpen, first>>
  /\ q' = NoCall
  /\ UNCHANGED <<archiveItems, files, offEpub>>

\* Try to load the existing cache.
StepTryCache ==
  /\ pc = "tryCache"
  /\ LET b == BmcLoad(bookBin)
         next == AfterTryCache(b.loaded, LoadCssRulesFromCache)
     IN /\ bmc' = b
        /\ hit' = (b.loaded /\ next = "findContentOpf")
        /\ Continue(next, b)
  /\ UNCHANGED <<archiveMeta, storage, frame, fields, bookMetadata, tocParsed,
                 steps, failed, tocHist, built, buildOpen, second>>
  /\ UNCHANGED beyondLoad

\* setupCacheDir, then bookMetadataCache->beginWrite().
StepBeginWrite ==
  /\ pc = "beginWrite"
  /\ \E mk \in BOOLEAN, ok \in BOOLEAN :
       /\ cacheDir' = (cacheDir \/ mk)
       /\ bmc' = [bmc EXCEPT !.buildMode = ok]
       /\ Did("beginWrite", ok)
       /\ Continue(AfterBeginWrite(ok), bmc')
  /\ buildOpen' = TRUE
  /\ UNCHANGED <<archiveMeta, bookBin, scratch, cssCache, frame, hit, fields,
                 bookMetadata, tocParsed, tocHist, built, second>>
  /\ UNCHANGED beyondLoad

\* beginContentOpfPass: the spine stream is opened for writing, truncated.
StepBeginContentOpfPass ==
  /\ pc = "beginContentOpfPass"
  /\ \E ok \in BOOLEAN :
       /\ ok => cacheDir
       /\ bmc' = IF ok THEN [bmc EXCEPT !.spineTmp = EmptyTmp] ELSE bmc
       /\ scratch' = IF ok THEN scratch \cup {TmpSpineBin} ELSE scratch
       /\ Did("beginContentOpfPass", ok)
       /\ Continue(AfterBeginContentOpfPass(ok), bmc')
  /\ UNCHANGED <<archiveMeta, cacheDir, bookBin, cssCache, frame, hit, fields,
                 bookMetadata, tocParsed, tocHist, built, buildOpen, second>>
  /\ UNCHANGED beyondLoad

\* findContentOpfFile: size and stream META-INF/container.xml, take the
\* rootfile path.
StepFindContentOpfFile ==
  /\ pc = "findContentOpf"
  /\ \E how \in {"no size", "no setup", "no stream", "no rootfile", "ok"} :
       /\ Did("container", how = "ok")
       /\ Continue(AfterFindContentOpfFile(how = "ok"), bmc)
  /\ UNCHANGED <<archiveMeta, storage, frame, hit, fields, bookMetadata,
                 tocParsed, bmc, tocHist, built, buildOpen, second>>
  /\ UNCHANGED beyondLoad

\* The rest of parseContentOpf(target): size and stream the manifest through
\* the content.opf parser, which pushes the spine entries into the cache as
\* it meets them, then copy the parser's results into target and the Epub.
StepParseContentOpf ==
  /\ pc = "parseContentOpf"
  /\ \E how \in {"no size", "no setup", "no read", "ok"}, n \in 0..MaxSpine,
        nav \in BOOLEAN, ncx \in BOOLEAN, css \in BOOLEAN :
       LET ok == how = "ok"
           pushed == IF how \in {"no read", "ok"} THEN SpinePushes(n) ELSE <<>>
           b == [bmc EXCEPT !.spineTmp = PushEntries(bmc, bmc.spineTmp, pushed)]
       IN /\ bookMetadata' = IF ok /\ ~hit THEN archiveMeta ELSE bookMetadata
          /\ bmc' = IF ok /\ hit
                    THEN [b EXCEPT !.coreMetadata = archiveMeta] ELSE b
          /\ tocNcxItem' = IF ok /\ ncx THEN NcxHref ELSE tocNcxItem
          /\ tocNavItem' = IF ok /\ nav THEN NavHref ELSE tocNavItem
          /\ cssFiles' = IF ok /\ css THEN <<CssHref>> ELSE cssFiles
          /\ Did("opf", ok)
          /\ Continue(AfterParseContentOpf(ok), bmc')
  /\ UNCHANGED <<archiveMeta, storage, frame, hit, tocParsed, tocHist, built,
                 buildOpen, second>>
  /\ UNCHANGED beyondLoad

StepEndContentOpfPass ==
  /\ pc = "endContentOpfPass"
  /\ \E ok \in BOOLEAN :
       /\ Did("endContentOpfPass", ok)
       /\ Continue(AfterEndContentOpfPass(ok), bmc)
  /\ UNCHANGED <<archiveMeta, storage, frame, hit, fields, bookMetadata,
                 tocParsed, bmc, tocHist, built, buildOpen, second>>
  /\ UNCHANGED beyondLoad

\* beginTocPass: the TOC stream is opened for writing, truncated.
StepBeginTocPass ==
  /\ pc = "beginTocPass"
  /\ \E ok \in BOOLEAN :
       /\ ok => cacheDir
       /\ bmc' = IF ok THEN [bmc EXCEPT !.tocTmp = EmptyTmp] ELSE bmc
       /\ scratch' = IF ok THEN scratch \cup {TmpTocBin} ELSE scratch
       /\ Did("beginTocPass", ok)
       /\ Continue(AfterBeginTocPass(ok), bmc')
  /\ UNCHANGED <<archiveMeta, cacheDir, bookBin, cssCache, frame, hit, fields,
                 bookMetadata, tocParsed, tocHist, built, buildOpen, second>>
  /\ UNCHANGED beyondLoad

\* What one run of parseTocNavFile / parseTocNcxFile does, by how far it gets:
\*   "no open"    the scratch file cannot be opened for writing
\*   "unreadable" the archive entry cannot be streamed (the result of
\*                readItemContentsToStream is not looked at): the scratch file
\*                stays empty and the chunk loop has nothing to feed
\*   "no reopen"  the scratch file cannot be opened for reading
\*   "no setup"   the parser's setup or the chunk buffer allocation fails
\*   "short"      the parser pushes k entries, then consumes less than supplied
\*   "full"       the parser consumes the whole document, pushing k entries
\* ok: the return value; pushed: entries pushed into the cache; created / left:
\* the scratch file was created / is still there on return.
TocParseOutcome(how, k) ==
  [ok |-> how \in {"unreadable", "full"},
   pushed |-> IF how \in {"short", "full"} THEN k ELSE 0,
   created |-> how # "no open",
   left |-> how \in {"no reopen", "no setup", "short"}]

ParseTocNavFile(how, k) == TocParseOutcome(how, k)

ParseTocNcxFile(how, k) == TocParseOutcome(how, k)

TocParseKinds == {"no open", "unreadable", "no reopen", "no setup", "short", "full"}

ScratchAfter(r, path) ==
  IF r.left THEN scratch \cup {path}
  ELSE IF r.created THEN scratch \ {path} ELSE scratch

\* TOC pass, EPUB 3 nav document first.
StepParseTocNav ==
  /\ pc = "parseTocNav"
  /\ IF TryNav
     THEN \E how \in TocParseKinds, k \in 0..MaxToc :
            LET r == ParseTocNavFile(how, k) IN
            /\ r.created => cacheDir
            /\ bmc' = [bmc EXCEPT !.tocTmp =
                         PushEntries(bmc, bmc.tocTmp, TocPushes("nav", r.pushed))]
            /\ scratch' = ScratchAfter(r, TmpNavPath)
            /\ tocParsed' = r.ok
            /\ tocHist' = [tocHist EXCEPT
                              !.nav = IF r.ok THEN "ok" ELSE "failed",
                              !.navPushed = r.pushed]
            /\ steps' = Append(steps, "nav")
     ELSE UNCHANGED <<bmc, scratch, tocParsed, tocHist, steps>>
  /\ Goto("parseTocNcx")
  /\ UNCHANGED <<archiveMeta, cacheDir, bookBin, cssCache, frame, hit, fields,
                 bookMetadata, failed, built, buildOpen, second>>
  /\ UNCHANGED beyondLoad

\* Fall back to the NCX document, then go on with or without a TOC.
StepParseTocNcx ==
  /\ pc = "parseTocNcx"
  /\ IF TryNcx(tocParsed)
     THEN \E how \in TocParseKinds, k \in 0..MaxToc :
            LET r == ParseTocNcxFile(how, k) IN
            /\ r.created => cacheDir
            /\ bmc' = [bmc EXCEPT !.tocTmp =
                         PushEntries(bmc, bmc.tocTmp, TocPushes("ncx", r.pushed))]
            /\ scratch' = ScratchAfter(r, TmpNcxPath)
            /\ tocParsed' = r.ok
            /\ tocHist' = [tocHist EXCEPT
                              !.ncx = IF r.ok THEN "ok" ELSE "failed",
                              !.ncxPushed = r.pushed]
            /\ steps' = Append(steps, "ncx")
     ELSE UNCHANGED <<bmc, scratch, tocParsed, tocHist, steps>>
  /\ failed' = IF AfterTocParse(tocParsed') = "return false" THEN "toc" ELSE failed
  /\ Continue(AfterTocParse(tocParsed'), bmc')
  /\ UNCHANGED <<archiveMeta, cacheDir, bookBin, cssCache, frame, hit, fields,
                 bookMetadata, built, buildOpen, second>>
  /\ UNCHANGED beyondLoad

StepEndTocPass ==
  /\ pc = "endTocPass"
  /\ \E ok \in BOOLEAN :
       /\ Did("endTocPass", ok)
       /\ Continue(AfterEndTocPass(ok), bmc)
  /\ UNCHANGED <<archiveMeta, storage, frame, hit, fields, bookMetadata,
                 tocParsed, bmc, tocHist, built, buildOpen, second>>
  /\ UNCHANGED beyondLoad

\* endWrite: the cache leaves build mode.
StepEndWrite ==
  /\ pc = "endWrite"
  /\ \E ok \in BOOLEAN :
       /\ bmc' = [bmc EXCEPT !.buildMode = FALSE]
       /\ Did("endWrite", ok)
       /\ Continue(AfterEndWrite(ok), bmc')
  /\ UNCHANGED <<archiveMeta, storage, frame, hit, fields, bookMetadata,
                 tocParsed, tocHist, built, buildOpen, second>>
  /\ UNCHANGED beyondLoad

\* buildBookBin(filepath, bookMetadata): the one step that writes book.bin.
\*   "fail"       it returns false; book.bin is left as it was, absent or
\*                unreadable, never a loadable partial index
\*   "ok"         it returns true and book.bin is the finalized index
\*   "unreadable" it returns true but what reached storage does not read back
StepBuildBookBin ==
  /\ pc = "buildBookBin"
  /\ \E how \in {"fail", "ok", "unreadable"} :
       LET idx == ComputeIndex(BuildBookBinMetadata, bmc.spineTmp.entries,
                               bmc.tocTmp.entries)
       IN /\ how # "fail" => (cacheDir /\ {TmpSpineBin, TmpTocBin} \subseteq scratch)
          /\ CASE how = "ok" -> bookBin' = WriteBookBin(idx)
               [] how = "unreadable" -> bookBin' = BadFile
               [] OTHER -> bookBin' \in {bookBin, NoFile, BadFile}
          /\ built' = IF how = "fail" THEN built
                      ELSE [set |-> TRUE, tables |-> idx]
          /\ buildOpen' = (how = "fail")
          /\ Did("buildBookBin", how # "fail")
          /\ Continue(AfterBuildBookBin(how # "fail"), bmc)
  /\ UNCHANGED <<archiveMeta, cacheDir, scratch, cssCache, frame, hit, fields,
                 bookMetadata, tocParsed, bmc, tocHist, second>>
  /\ UNCHANGED beyondLoad

\* cleanupTmpFiles: the intermediate streams are removed.
StepCleanup ==
  /\ pc = "cleanup"
  /\ \E ok \in BOOLEAN :
       /\ scratch' = IF ok THEN scratch \ {TmpSpineBin, TmpTocBin} ELSE scratch
       /\ Did("cleanup", TRUE)
       /\ Continue(AfterCleanup(ok), bmc)
  /\ UNCHANGED <<archiveMeta, cacheDir, bookBin, cssCache, frame, hit, fields,
                 bookMetadata, tocParsed, bmc, tocHist, built, buildOpen,
                 second>>
  /\ UNCHANGED beyondLoad

\* The builder object is dropped; a new BookMetadataCache loads book.bin.
StepReload ==
  /\ pc = "reload"
  /\ bmc' = BmcLoad(bookBin)
  /\ Did("reload", bmc'.loaded)
  /\ Continue(AfterReload(bmc'.loaded), bmc')
  /\ UNCHANGED <<archiveMeta, storage, frame, hit, fields, bookMetadata,
                 tocParsed, tocHist, built, buildOpen, second>>
  /\ UNCHANGED beyondLoad

\* How the work on one CSS file of parseCssFiles ends: the scratch file
\* .tmp.css cannot be created, the item cannot be extracted, the scratch file
\* cannot be reopened, or the file is handed to the CSS parser.  Whenever the
\* scratch file was created it is removed again.
CssFileKinds == {"no create", "no read", "no reopen", "parsed"}

\* parseCssFiles: load the CSS rule cache, or work through the CSS files and
\* save the rule cache if its file can be opened.
StepParseCss ==
  /\ pc = "parseCss"
  /\ IF LoadCssRulesFromCache
     THEN /\ UNCHANGED cssCache
          /\ q' = [op |-> "parseCssFiles", cached |-> TRUE, file |-> "none",
                   saved |-> FALSE]
     ELSE \E saved \in BOOLEAN,
             how \in IF cssFiles = <<>> THEN {"none"} ELSE CssFileKinds :
            /\ saved => cacheDir
            /\ how # "none" => cacheDir
            /\ cssCache' = IF saved THEN "valid" ELSE cssCache
            /\ q' = [op |-> "parseCssFiles", cached |-> FALSE, file |-> how,
                     saved |-> saved]
  /\ steps' = Append(steps, "css")
  /\ Continue(AfterParseCss, bmc)
  /\ UNCHANGED <<archiveMeta, cacheDir, bookBin, scratch, frame, hit, fields,
                 bookMetadata, tocParsed, bmc, failed, tocHist, built,
                 buildOpen, second>>
  /\ UNCHANGED <<archiveItems, files, offEpub>>

\* ------------------------------------------------------------ environment
\* Power is lost (or the Epub object is dropped): memory is gone, storage
\* stays.  Inside buildBookBin the index may be left partly written, which
\* does not load.
PowerLoss ==
  /\ pc # "idle"
  /\ bookBin' \in IF pc = "buildBookBin" THEN {bookBin, BadFile} ELSE {bookBin}
  /\ pc' = "idle"
  /\ buildIfMissing' = TRUE
  /\ skipLoadingCss' = FALSE
  /\ hit' = FALSE
  /\ bookMetadata' = EmptyMeta
  /\ tocParsed' = FALSE
  /\ tocNavItem' = ""
  /\ tocNcxItem' = ""
  /\ cssFiles' = <<>>
  /\ bmc' = FreshBmc
  /\ steps' = <<>>
  /\ result' = "none"
  /\ failed' = "none"
  /\ tocHist' = NoTocHist
  /\ built' = NoBuilt
  /\ second' = FALSE
  /\ UNCHANGED <<archiveMeta, cacheDir, scratch, cssCache, buildOpen, first>>
  /\ q' = NoCall
  /\ UNCHANGED <<archiveItems, files, offEpub>>

\* The history of a load() that has returned is dropped when the environment
\* acts; the Epub object and its members stay as they are.
ForgetLoad ==
  /\ pc' = "idle"
  /\ buildIfMissing' = TRUE
  /\ skipLoadingCss' = FALSE
  /\ hit' = FALSE
  /\ bookMetadata' = EmptyMeta
  /\ tocParsed' = FALSE
  /\ steps' = <<>>
  /\ result' = "none"
  /\ failed' = "none"
  /\ tocHist' = NoTocHist
  /\ built' = NoBuilt
  /\ second' = FALSE
  /\ first' = NoFirst
  /\ UNCHANGED <<fields, bmc>>

\* The EPUB at the same file path is replaced by another edition.
ReplaceArchive ==
  /\ pc \in {"idle", "done"}
  /\ archiveMeta' \in Metas \ {archiveMeta}
  /\ ForgetLoad
  /\ UNCHANGED <<storage, buildOpen>>
  /\ q' = NoCall
  /\ UNCHANGED <<archiveItems, files, offEpub>>

\* Epub::clearCache removes the cache directory.
ClearCache ==
  /\ pc \in {"idle", "done"}
  /\ cacheDir
  /\ cacheDir' = FALSE
  /\ bookBin' = NoFile
  /\ scratch' = {}
  /\ cssCache' = "absent"
  /\ buildOpen' = FALSE
  /\ files' = NoFiles
  /\ ForgetLoad
  /\ q' = NoCall
  /\ UNCHANGED <<archiveMeta, archiveItems, offEpub>>

\* One step of load(), or a power loss.
Next ==
  \/ LoadBegin
  \/ StepTryCache
  \/ StepBeginWrite
  \/ StepBeginContentOpfPass
  \/ StepFindContentOpfFile
  \/ StepParseContentOpf
  \/ StepEndContentOpfPass
  \/ StepBeginTocPass
  \/ StepParseTocNav
  \/ StepParseTocNcx
  \/ StepEndTocPass
  \/ StepEndWrite
  \/ StepBuildBookBin
  \/ StepCleanup
  \/ StepReload
  \/ StepParseCss
  \/ PowerLoss

\* A device opening the book on fresh storage.
Spec == Init /\ [][Next]_vars

\* The same, with the archive replaced and the cache cleared between loads.
NextReopen ==
  \/ Next
  \/ ReplaceArchive
  \/ ClearCache

SpecReopen == Init /\ [][NextReopen]_vars

\* ---------------------------------------------------------------- queries
IsLoaded == bmc.loaded
GetTitle == IF ~IsLoaded THEN "" ELSE bmc.coreMetadata.title
GetSpineItemsCount == IF ~IsLoaded THEN 0 ELSE Len(bmc.spine)
GetTocItemsCount == IF ~IsLoaded THEN 0 ELSE Len(bmc.toc)

\* ---------------------------------------------------------- index queries
\* A default-constructed SpineEntry / TocEntry.
EmptySpineEntry == [href |-> -1, cumulativeSize |-> 0, tocIndex |-> -1]
EmptyTocEntry == [src |-> "none", href |-> -1, spineIndex |-> -1]

\* What reading a spine-table position that is not in the table can produce.
GarbageEntries ==
  {EmptySpineEntry, [href |-> -1, cumulativeSize |-> 7, tocIndex |-> 0]}

\* BookMetadataCache::getSpineEntry / getTocEntry: the table entry at a
\* position; a spine position outside the table yields g.
GetSpineEntry(index, g) ==
  IF index >= 0 /\ index < Len(bmc.spine) THEN bmc.spine[index + 1] ELSE g

GetTocEntry(index) == bmc.toc[index + 1]

\* Epub::getSpineItem.  `at` is the table position asked of the cache, -1
\* when the cache is not asked.
GetSpineItem(spineIndex, g) ==
  IF ~IsLoaded THEN [entry |-> EmptySpineEntry, at |-> -1]
  ELSE IF spineIndex < 0 \/ spineIndex >= Len(bmc.spine)
       THEN [entry |-> GetSpineEntry(0, g), at |-> 0]
       ELSE [entry |-> GetSpineEntry(spineIndex, g), at |-> spineIndex]

GetCumulativeSpineItemSize(spineIndex, g) ==
  GetSpineItem(spineIndex, g).entry.cumulativeSize

\* Epub::getTocItem
GetTocItem(tocIndex) ==
  IF ~IsLoaded THEN EmptyTocEntry
  ELSE IF tocIndex < 0 \/ tocIndex >= Len(bmc.toc) THEN EmptyTocEntry
       ELSE GetTocEntry(tocIndex)

\* Variant: the stored spineIndex is handed out as it is.
GetSpineIndexForTocIndexRaw(tocIndex) ==
  IF ~IsLoaded THEN 0
  ELSE IF tocIndex < 0 \/ tocIndex >= Len(bmc.toc) THEN 0
       ELSE GetTocEntry(tocIndex).spineIndex

\* Epub::getSpineIndexForTocIndex: an entry that resolves to no spine item
\* is sent to the first one.
GetSpineIndexForTocIndex(tocIndex) ==
  IF ~IsLoaded THEN 0
  ELSE IF tocIndex < 0 \/ tocIndex >= Len(bmc.toc) THEN 0
       ELSE LET spineIndex == GetTocEntry(tocIndex).spineIndex
            IN IF spineIndex < 0 THEN 0 ELSE spineIndex

\* Variant: the TOC index of the first spine item is returned for all.
GetTocIndexForSpineIndexOfFirst(spineIndex, g) == GetSpineItem(0, g).entry.tocIndex

\* Epub::getTocIndexForSpineIndex
GetTocIndexForSpineIndex(spineIndex, g) == GetSpineItem(spineIndex, g).entry.tocIndex

\* Variant: the size of the first spine item is taken for the book's.
GetBookSizeOfFirst(g) ==
  IF ~IsLoaded \/ Len(bmc.spine) = 0 THEN 0
  ELSE GetCumulativeSpineItemSize(0, g)

\* Epub::getBookSize
GetBookSize(g) ==
  IF ~IsLoaded \/ Len(bmc.spine) = 0 THEN 0
  ELSE GetCumulativeSpineItemSize(GetSpineItemsCount - 1, g)

\* size_t subtraction a - b: the result is carry * 2^w + low, w the width
\* of size_t (carry is 1 and low negative when the difference wraps around).
SizeSub(a, b) == [carry |-> IF a < b THEN 1 ELSE 0, low |-> a - b]

\* The value calculateProgress returns without dividing.
ZeroProgress == [carry |-> 0, num |-> 0, den |-> 1, divided |-> FALSE]

\* Variant: the size of the chapters before the current one is left out.
CalculateProgressNoPrev(currentSpineIndex, k, g) ==
  LET bookSize == GetBookSize(g) IN
  IF bookSize = 0 THEN ZeroProgress
  ELSE LET curChapterSize == SizeSub(GetCumulativeSpineItemSize(currentSpineIndex, g), 0)
       IN [carry |-> k * curChapterSize.carry, num |-> k * curChapterSize.low,
           den |-> FracDen * bookSize, divided |-> TRUE]

\* Variant: only the part read of the current chapter is counted.
CalculateProgressChapterOnly(currentSpineIndex, k, g) ==
  LET bookSize == GetBookSize(g) IN
  IF bookSize = 0 THEN ZeroProgress
  ELSE LET prevChapterSize ==
             IF currentSpineIndex >= 1
             THEN GetCumulativeSpineItemSize(currentSpineIndex - 1, g) ELSE 0
           curChapterSize ==
             SizeSub(GetCumulativeSpineItemSize(currentSpineIndex, g), prevChapterSize)
       IN [carry |-> k * curChapterSize.carry, num |-> k * curChapterSize.low,
           den |-> FracDen * bookSize, divided |-> TRUE]

\* Variant: the book size is not looked at before dividing by it.
CalculateProgressUnguarded(currentSpineIndex, k, g) ==
  LET bookSize == GetBookSize(g)
      prevChapterSize ==
        IF currentSpineIndex >= 1
        THEN GetCumulativeSpineItemSize(currentSpineIndex - 1, g) ELSE 0
      curChapterSize ==
        SizeSub(GetCumulativeSpineItemSize(currentSpineIndex, g), prevChapterSize)
  IN [carry |-> k * curChapterSize.carry,
      num |-> prevChapterSize * FracDen + k * curChapterSize.low,
      den |-> FracDen * bookSize, divided |-> TRUE]

\* Epub::calculateProgress(currentSpineIndex, k / FracDen).  The value
\* returned is (carry * 2^w + num) / den, exactly; `divided` tells
\* whether the division by the book size was executed.
CalculateProgress(currentSpineIndex, k, g) ==
  LET bookSize == GetBookSize(g) IN
  IF bookSize = 0 THEN ZeroProgress
  ELSE LET prevChapterSize ==
             IF currentSpineIndex >= 1
             THEN GetCumulativeSpineItemSize(currentSpineIndex - 1, g) ELSE 0
           curChapterSize ==
             SizeSub(GetCumulativeSpineItemSize(currentSpineIndex, g), prevChapterSize)
       IN [carry |-> k * curChapterSize.carry,
           num |-> prevChapterSize * FracDen + k * curChapterSize.low,
           den |-> FracDen * bookSize, divided |-> TRUE]

\* ------------------------------------------- queries on a built index
\* Hrefs of the spine items of the books the queries are tried on (the item
\* with href 0 is empty), and hrefs their TOC entries point at (no spine
\* item has href 5).
IndexSpineHrefs == {0, 1, 2, 4}
IndexTocHrefs == {1, 2, 5}

SeqsUpTo(S, n) == UNION {[1..k -> S] : k \in 0..n}

\* Indexes and fractions the queries are called with.
QueryIndexes == -1..(MaxIndexSpine + 1)
QueryFractions == 0..FracDen

\* A build has written book.bin for some spine and TOC (or book.bin does not
\* read back) and is about to reload it.
InitIndex ==
  /\ archiveMeta = [title |-> "A", coverItemHref |-> <<>>]
  /\ cacheDir = TRUE
  /\ \E hrefs \in SeqsUpTo(IndexSpineHrefs, MaxIndexSpine),
        targets \in SeqsUpTo(IndexTocHrefs, MaxIndexToc), readable \in BOOLEAN :
       LET idx == ComputeIndex(archiveMeta, hrefs,
                               [t \in 1..Len(targets) |->
                                  [src |-> "nav", href |-> targets[t]]])
       IN /\ ~readable => hrefs = <<>> /\ targets = <<>>
          /\ bookBin = IF readable THEN WriteBookBin(idx) ELSE BadFile
          /\ built = [set |-> TRUE, tables |-> idx]
  /\ scratch = {}
  /\ cssCache = "absent"
  /\ pc = "reload"
  /\ buildIfMissing = TRUE
  /\ skipLoadingCss = TRUE
  /\ hit = FALSE
  /\ bookMetadata = archiveMeta
  /\ tocParsed = TRUE
  /\ tocNavItem = NavHref
  /\ tocNcxItem = ""
  /\ cssFiles = <<>>
  /\ bmc = [FreshBmc EXCEPT !.spineTmp = EmptyTmp, !.tocTmp = EmptyTmp]
  /\ steps = <<"beginWrite", "beginContentOpfPass", "container", "opf",
               "endContentOpfPass", "beginTocPass", "nav", "endTocPass",
               "endWrite", "buildBookBin", "cleanup">>
  /\ result = "none"
  /\ failed = "none"
  /\ tocHist = [NoTocHist EXCEPT !.nav = "ok"]
  /\ buildOpen = FALSE
  /\ first = NoFirst
  /\ second = FALSE
  /\ archiveItems = {}
  /\ files = NoFiles
  /\ q = NoCall
  /\ ble = BleOff
  /\ tocPass = NoTocPass
  /\ keys = KeysOff
  /\ input = InputOff
  /\ http = HttpOff

\* A query is called on the Epub once load() has returned (one query is
\* followed per behaviour).
Asked(op, i, k, r) ==
  /\ pc = "done"
  /\ q = NoCall
  /\ q' = [op |-> op, i |-> i, k |-> k, r |-> r]
  /\ UNCHANGED <<archiveMeta, storage, pc, frame, hit, bookMetadata, tocParsed,
                 fields, bmc, steps, result, failed, tocHist, built, buildOpen,
                 first, second, archiveItems, files, offEpub>>

CallGetSpineItem ==
  \E i \in QueryIndexes, g \in GarbageEntries :
    Asked("getSpineItem", i, 0, GetSpineItem(i, g))

CallGetTocItem ==
  \E t \in QueryIndexes : Asked("getTocItem", t, 0, [entry |-> GetTocItem(t)])

CallGetSpineIndexForTocIndex ==
  \E t \in QueryIndexes :
    Asked("getSpineIndexForTocIndex", t, 0, [value |-> GetSpineIndexForTocIndex(t)])

CallGetTocIndexForSpineIndex ==
  \E s \in QueryIndexes, g \in GarbageEntries :
    Asked("getTocIndexForSpineIndex", s, 0,
          [value |-> GetTocIndexForSpineIndex(s, g)])

CallGetBookSize ==
  \E g \in GarbageEntries : Asked("getBookSize", 0, 0, [value |-> GetBookSize(g)])

CallCalculateProgress ==
  \E i \in QueryIndexes, k \in QueryFractions, g \in GarbageEntries :
    Asked("calculateProgress", i, k, CalculateProgress(i, k, g))

NextIndex ==
  \/ StepReload
  \/ CallGetSpineItem
  \/ CallGetTocItem
  \/ CallGetSpineIndexForTocIndex
  \/ CallGetTocIndexForSpineIndex
  \/ CallGetBookSize
  \/ CallCalculateProgress

\* The queries applied to the index a build wrote and reloaded.
SpecIndex == InitIndex /\ [][NextIndex]_vars

\* ------------------------------------------------- cover and thumbnail
\* Contents of a bitmap file, first bytes first: what the raster converter
\* writes when it succeeds, and the X-pattern bitmap of
\* generateInvalidFormatCoverBmp / generateInvalidFormatThumbBmp.  The third
\* element stands for everything after the two magic bytes.
BmpImage == <<"B", "M", "image">>
BmpMarker == <<"B", "M", "X">>
\* The converter succeeds, or fails having written nothing, or fails having
\* written the start of a bitmap into the target file it was handed.
ConverterOutcomes == {"ok", "fails empty", "fails partial"}
ConverterLeaves(conv) == IF conv = "fails partial" THEN <<"B", "M">> ELSE <<>>
File(bytes) == [exists |-> TRUE, bytes |-> bytes]

EmptyHref == <<>>
DotJpg == <<".", "j", "p", "g">>
DotJpeg == <<".", "j", "p", "e", "g">>
CoverName == <<"c", "o", "v", "e", "r">>
CoverDirectories ==
  << <<".">>,
     <<"i", "m", "a", "g", "e", "s">>,
     <<"I", "m", "a", "g", "e", "s">>,
     <<"O", "E", "B", "P", "S">>,
     <<"O", "E", "B", "P", "S", "/", "i", "m", "a", "g", "e", "s">>,
     <<"O", "E", "B", "P", "S", "/", "I", "m", "a", "g", "e", "s">> >>
CoverExtensions == <<DotJpg, DotJpeg>>

\* Epub::getCoverCandidates: every directory with ".jpg", then every
\* directory with ".jpeg".
GetCoverCandidates ==
  [n \in 1..(Len(CoverExtensions) * Len(CoverDirectories)) |->
     LET ext == CoverExtensions[((n - 1) \div Len(CoverDirectories)) + 1]
         dir == CoverDirectories[((n - 1) % Len(CoverDirectories)) + 1]
     IN IF dir = <<".">> THEN CoverName \o ext
        ELSE dir \o <<"/">> \o CoverName \o ext]

\* Epub::readItemContentsToBytes gives a buffer (TRUE) or nullptr (FALSE).
ReadItemContentsToBytes(itemHref) ==
  IF itemHref = EmptyHref THEN FALSE ELSE itemHref \in archiveItems

\* Variant of the candidate loop: it goes through every candidate and keeps
\* the last one found.
ProbeCandidatesToTheEnd ==
  LET hits == {n \in DOMAIN GetCoverCandidates :
                 ReadItemContentsToBytes(GetCoverCandidates[n])}
  IN [probed |-> Len(GetCoverCandidates),
      href |-> IF hits = {} THEN EmptyHref
               ELSE GetCoverCandidates[CHOOSE n \in hits : \A m \in hits : m <= n]]

\* The candidate loop: the candidates probed, in order, and the href the loop
\* ends with.
ProbeCandidates ==
  LET hits == {n \in DOMAIN GetCoverCandidates :
                 ReadItemContentsToBytes(GetCoverCandidates[n])}
      last == IF hits = {} THEN Len(GetCoverCandidates)
              ELSE CHOOSE n \in hits : \A m \in hits : n <= m
  IN [probed |-> last,
      href |-> IF hits = {} THEN EmptyHref ELSE GetCoverCandidates[last]]

\* The effective cover href: coverItemHref, or the outcome of the probing.
EffectiveCoverImageHref ==
  LET coverImageHref == bmc.coreMetadata.coverItemHref IN
  IF coverImageHref = EmptyHref THEN ProbeCandidates
  ELSE [probed |-> 0, href |-> coverImageHref]

LowerOf(ch) ==
  CASE ch = "J" -> "j" [] ch = "P" -> "p" [] ch = "G" -> "g" [] ch = "E" -> "e"
    [] ch = "I" -> "i" [] ch = "O" -> "o" [] ch = "B" -> "b" [] ch = "S" -> "s"
    [] OTHER -> ch
ToLower(str) == [n \in 1..Len(str) |-> LowerOf(str[n])]

\* str.substr(str.length() - back): the position is a size_t, so for a string
\* shorter than `back` it wraps to beyond the end and substr throws
\* std::out_of_range.
SubstrFromEnd(str, back) ==
  IF back > Len(str) THEN [thrown |-> TRUE, str |-> <<>>]
  ELSE [thrown |-> FALSE, str |-> SubSeq(str, Len(str) - back + 1, Len(str))]

\* The extension check of generateCoverBmp / generateThumbBmp; the second
\* substr is evaluated only when the first comparison is false.
ExtensionCheck(href) ==
  LET lowerHref == ToLower(href)
      four == SubstrFromEnd(lowerHref, Len(DotJpg))
      five == SubstrFromEnd(lowerHref, Len(DotJpeg))
  IN IF four.thrown THEN [thrown |-> TRUE, isJpg |-> FALSE]
     ELSE IF four.str = DotJpg THEN [thrown |-> FALSE, isJpg |-> TRUE]
     ELSE IF five.thrown THEN [thrown |-> TRUE, isJpg |-> FALSE]
     ELSE [thrown |-> FALSE, isJpg |-> five.str = DotJpeg]

\* What storage and the converter do during one call: `oracle` is how the
\* open and the read of isValidThumbnailBmp go, the booleans say whether an
\* open succeeds, `conv` is how the converter ends.
OracleKinds == {"ok", "no open", "no read"}
\* An open that fails in the JPEG branch ends the call, so it is listed
\* without the faults that could only have come after it.
AssetIo ==
  {io \in [oracle : OracleKinds, scratchWrite : BOOLEAN, scratchRead : BOOLEAN,
           targetWrite : BOOLEAN, conv : ConverterOutcomes,
           markerWrite : BOOLEAN] :
     (~io.scratchWrite \/ ~io.scratchRead \/ ~io.targetWrite) =>
       /\ io.conv = "ok" /\ io.markerWrite
       /\ ~io.scratchWrite => io.scratchRead /\ io.targetWrite
       /\ ~io.scratchRead => io.targetWrite}

\* Variants of Epub::isValidThumbnailBmp.
IsValidThumbnailBmpFirstByte(file, how) ==
  IF ~file.exists THEN FALSE
  ELSE IF how = "no open" THEN FALSE
  ELSE IF Len(file.bytes) = 0 THEN FALSE
  ELSE IF how = "no read" \/ Len(file.bytes) < 2 THEN FALSE
  ELSE file.bytes[1] = "B"

\* Epub::isValidThumbnailBmp on a path holding `file`.
IsValidThumbnailBmp(file, how) ==
  IF ~file.exists THEN FALSE
  ELSE IF how = "no open" THEN FALSE
  ELSE IF Len(file.bytes) = 0 THEN FALSE
  ELSE IF how = "no read" \/ Len(file.bytes) < 2 THEN FALSE
  ELSE file.bytes[1] = "B" /\ file.bytes[2] = "M"

ScratchCoverJpg == ".cover.jpg"
GetCoverBmpPath(cropped) == IF cropped THEN "cover_crop.bmp" ELSE "cover.bmp"
\* The thumbnail of the one height the home screen asks for.
GetThumbBmpPath == "thumb.bmp"

\* Outcome of a call: the value returned ("aborted" when the call does not
\* return), the files afterwards, what the call did, in order, and the
\* storage operations that failed in it.
Outcome(r, fs, sc, log, probed, faults) ==
  [r |-> r, files |-> fs, scratch |-> sc, log |-> log, probed |-> probed,
   faults |-> faults]

\* generateInvalidFormatCoverBmp / generateInvalidFormatThumbBmp, entered
\* with the files `fs`.
GenerateInvalidFormatBmp(path, fs, sc, log, probed, faults, io) ==
  IF ~io.markerWrite
  THEN Outcome("false", fs, sc, log, probed, faults \cup {"marker open"})
  ELSE Outcome("true", [fs EXCEPT ![path] = File(BmpMarker)], sc,
               Append(log, "write marker"), probed, faults)

\* The JPEG branch: extract to the scratch file, convert into the target,
\* and write the marker when the converter fails.
GenerateFromJpg(path, fs, sc, log, probed, faults, io) ==
  IF ~io.scratchWrite
  THEN Outcome("false", fs, sc, log, probed, faults \cup {"scratch open"})
  ELSE
    LET sc1 == sc \cup {ScratchCoverJpg}
        log1 == Append(log, "extract")
    IN IF ~io.scratchRead
       THEN Outcome("false", fs, sc1, log1, probed, faults \cup {"scratch reopen"})
       ELSE IF ~io.targetWrite
       THEN Outcome("false", fs, sc1, log1, probed, faults \cup {"target open"})
       ELSE
         LET log2 == Append(log1, "convert")
             sc2 == sc1 \ {ScratchCoverJpg}
         IN IF io.conv = "ok"
            THEN Outcome("true", [fs EXCEPT ![path] = File(BmpImage)], sc2,
                         Append(log2, "write image"), probed, faults)
            ELSE GenerateInvalidFormatBmp(
                   path, [fs EXCEPT ![path] = File(ConverterLeaves(io.conv))],
                   sc2, log2, probed, faults, io)

\* Variant of the reuse test: an existing file is reused without a look.
ReuseExistingUnseen(file, how) == file.exists

\* generateCoverBmp / generateThumbBmp reuse the file at the target path when
\* it exists and isValidThumbnailBmp accepts it.
ReuseExisting(file, how) == file.exists /\ IsValidThumbnailBmp(file, how)

\* The common body of generateCoverBmp (thumb = FALSE) and generateThumbBmp
\* (thumb = TRUE) for the target `path`.
GenerateBmp(path, thumb, io) ==
  LET old == files[path]
      log0 == IF ~old.exists THEN <<>>
              ELSE IF IsValidThumbnailBmp(old, io.oracle)
              THEN <<"oracle: valid">> ELSE <<"oracle: invalid">>
      f0 == IF old.exists /\ io.oracle # "ok" THEN {"oracle"} ELSE {}
  IN
  IF ReuseExisting(old, io.oracle)
  THEN Outcome("true", files, scratch, log0, 0, f0)
  ELSE
    LET fs1 == IF old.exists THEN [files EXCEPT ![path] = Absent] ELSE files
        log1 == IF old.exists THEN Append(log0, "remove") ELSE log0
    IN
    IF ~bmc.loaded THEN Outcome("false", fs1, scratch, log1, 0, f0)
    ELSE
      LET eff == EffectiveCoverImageHref IN
      IF eff.href = EmptyHref
      THEN IF ~thumb THEN Outcome("false", fs1, scratch, log1, eff.probed, f0)
           ELSE IF io.targetWrite
           THEN Outcome("false", [fs1 EXCEPT ![path] = File(<<>>)], scratch,
                        Append(log1, "write empty"), eff.probed, f0)
           ELSE Outcome("false", fs1, scratch, log1, eff.probed,
                        f0 \cup {"target open"})
      ELSE
        LET ext == ExtensionCheck(eff.href) IN
        IF ext.thrown THEN Outcome("aborted", fs1, scratch, log1, eff.probed, f0)
        ELSE IF ext.isJpg
        THEN GenerateFromJpg(path, fs1, scratch, log1, eff.probed, f0, io)
        ELSE GenerateInvalidFormatBmp(path, fs1, scratch, log1, eff.probed, f0, io)

\* Variant of generateCoverBmp: it ends like generateThumbBmp when there is
\* no cover.
GenerateCoverBmpMarking(cropped, io) ==
  GenerateBmp(GetCoverBmpPath(cropped), TRUE, io)

GenerateCoverBmp(cropped, io) == GenerateBmp(GetCoverBmpPath(cropped), FALSE, io)

\* Variant of generateThumbBmp: it ends like generateCoverBmp when there is
\* no cover.
GenerateThumbBmpUnmarked(io) == GenerateBmp(GetThumbBmpPath, FALSE, io)

GenerateThumbBmp(io) == GenerateBmp(GetThumbBmpPath, TRUE, io)

\* Cover hrefs of the manifests tried: none, a PNG, a JPEG in either case of
\* the extension, and a three-character href.
PngHref == <<"c", ".", "p", "n", "g">>
JpgHref == <<"c", ".", "j", "p", "g">>
UpperJpegHref == <<"c", ".", "J", "P", "E", "G">>
ShortHref == <<"a", ".", "b">>
CoverHrefs == {EmptyHref, PngHref, JpgHref, UpperJpegHref, ShortHref}
\* Cover images the archives tried hold at the conventional places.
ArchiveItemSets ==
  {{}, {GetCoverCandidates[2]}, {GetCoverCandidates[11], GetCoverCandidates[4]}}
\* Files isValidThumbnailBmp is handed besides the ones this model writes.
OracleInputs ==
  {Absent} \cup {File(b) : b \in {<<>>, <<"B">>, <<"B", "x">>, <<"x", "M">>,
                                  <<"B", "M">>, BmpImage, BmpMarker}}

\* A build has written book.bin (or book.bin does not read back) for a book
\* with one spine item, and is about to reload it; no bitmap exists yet.
InitAssets ==
  /\ archiveMeta \in [title : {"A"}, coverItemHref : CoverHrefs]
  /\ archiveItems \in ArchiveItemSets
  /\ archiveMeta.coverItemHref # EmptyHref => archiveItems = {}
  /\ cacheDir = TRUE
  /\ \E readable \in BOOLEAN :
       LET idx == ComputeIndex(archiveMeta, <<1>>, <<>>)
       IN /\ bookBin = IF readable THEN WriteBookBin(idx) ELSE BadFile
          /\ built = [set |-> TRUE, tables |-> idx]
  /\ scratch = {}
  /\ cssCache = "absent"
  /\ pc = "reload"
  /\ buildIfMissing = TRUE
  /\ skipLoadingCss = TRUE
  /\ hit = FALSE
  /\ bookMetadata = archiveMeta
  /\ tocParsed = TRUE
  /\ tocNavItem = NavHref
  /\ tocNcxItem = ""
  /\ cssFiles = <<>>
  /\ bmc = [FreshBmc EXCEPT !.spineTmp = EmptyTmp, !.tocTmp = EmptyTmp]
  /\ steps = <<"beginWrite", "beginContentOpfPass", "container", "opf",
               "endContentOpfPass", "beginTocPass", "nav", "endTocPass",
               "endWrite", "buildBookBin", "cleanup">>
  /\ result = "none"
  /\ failed = "none"
  /\ tocHist = [NoTocHist EXCEPT !.nav = "ok"]
  /\ buildOpen = FALSE
  /\ first = NoFirst
  /\ second = FALSE
  /\ files = NoFiles
  /\ q = NoCall
  /\ ble = BleOff
  /\ tocPass = NoTocPass
  /\ keys = KeysOff
  /\ input = InputOff
  /\ http = HttpOff

\* A cover or thumbnail is asked for once load() has returned.
AssetCall(op, path, o) ==
  /\ pc = "done"
  /\ files' = o.files
  /\ scratch' = o.scratch
  /\ q' = [op |-> op, path |-> path, before |-> files[path], r |-> o.r,
           log |-> o.log, probed |-> o.probed, faults |-> o.faults]
  /\ UNCHANGED <<archiveMeta, cacheDir, bookBin, cssCache, pc, frame, hit,
                 bookMetadata, tocParsed, fields, bmc, steps, result, failed,
                 tocHist, built, buildOpen, first, second, archiveItems,
                 offEpub>>

\* Each way a call can go, over everything storage and the converter may do.
CallGenerateCoverBmp ==
  \E cropped \in BOOLEAN :
    \E o \in {GenerateCoverBmp(cropped, io) : io \in AssetIo} :
      AssetCall("generateCoverBmp", GetCoverBmpPath(cropped), o)

CallGenerateThumbBmp ==
  \E o \in {GenerateThumbBmp(io) : io \in AssetIo} :
    AssetCall("generateThumbBmp", GetThumbBmpPath, o)

\* isValidThumbnailBmp is called on one of the bitmaps, or on another file.
CallIsValidThumbnailBmp ==
  /\ pc = "done"
  /\ \E how \in OracleKinds,
        at \in {<<path, files[path]>> : path \in AssetPaths}
                \cup {<<"elsewhere", other>> : other \in OracleInputs} :
       q' = [op |-> "isValidThumbnailBmp", path |-> at[1], before |-> at[2],
             r |-> IF IsValidThumbnailBmp(at[2], how) THEN "true" ELSE "false",
             log |-> <<how>>, probed |-> 0]
  /\ UNCHANGED <<archiveMeta, storage, pc, frame, hit, bookMetadata, tocParsed,
                 fields, bmc, steps, result, failed, tocHist, built, buildOpen,
                 first, second, archiveItems, files, offEpub>>

NextAssets ==
  \/ StepReload
  \/ CallGenerateCoverBmp
  \/ CallGenerateThumbBmp
  \/ CallIsValidThumbnailBmp

\* Covers and thumbnails of a book whose index a build wrote and reloaded.
SpecAssets == InitAssets /\ [][NextAssets]_vars

\* ----------------------------------------------------- history predicates
Has(step) == \E i \in 1..Len(steps) : steps[i] = step
LastStep == IF steps = <<>> THEN "none" ELSE steps[Len(steps)]

\* Steps of the build whose failure makes load() return before the index is
\* committed.
PreCommitSteps ==
  {"beginWrite", "beginContentOpfPass", "container", "opf", "endContentOpfPass",
   "beginTocPass", "endTocPass", "endWrite", "buildBookBin"}

\* Positions of load() on the build path up to and including buildBookBin.
PreCommitPcs ==
  {"beginWrite", "beginContentOpfPass", "findContentOpf", "parseContentOpf",
   "endContentOpfPass", "beginTocPass", "parseTocNav", "parseTocNcx",
   "endTocPass", "endWrite", "buildBookBin"}

\* The steps of the build in the order of Epub::load.
CodeOrder ==
  <<"beginWrite", "beginContentOpfPass", "container", "opf",
    "endContentOpfPass", "beginTocPass", "nav", "ncx", "endTocPass",
    "endWrite", "buildBookBin", "cleanup", "reload", "css">>

\* The steps of the build in the order of the protocol of section 4.1:
\* the container is located before the OPF pass begins.
ProtocolOrder ==
  <<"beginWrite", "container", "beginContentOpfPass", "opf",
    "endContentOpfPass", "beginTocPass", "nav", "ncx", "endTocPass",
    "endWrite", "buildBookBin", "cleanup", "reload", "css">>

\* Steps a build may leave out: a document the manifest does not name is not
\* parsed, and the CSS work is skipped on request.
OptionalSteps == {"nav", "ncx", "css"}

Rank(order, s) == CHOOSE i \in 1..Len(order) : order[i] = s

\* The executed steps follow one another as in `order`.
InOrder(order) ==
  \A i, j \in 1..Len(steps) :
    i < j => Rank(order, steps[i]) < Rank(order, steps[j])

\* No step of `order` that a build must take was passed over.
NoStepSkipped(order) ==
  LET must(s) == s \notin OptionalSteps
      done == SelectSeq(steps, must)
  IN done = SubSeq(SelectSeq(order, must), 1, Len(done))

\* The step that failed is the last one, and load() has returned false.
StopsAtFailure ==
  failed # "none" => LastStep = failed /\ pc = "done" /\ result = "false"

\* ------------------------------------------------------------------ claims
\* C1: when a build fails at any step up to and including buildBookBin,
\* load() returns false at that step and book.bin is not loadable afterwards:
\* a later load() of the same cache directory does not succeed on what the
\* failed build left behind.
C1_FailedBuildIsNotLoadable ==
  (~hit /\ failed \in PreCommitSteps) =>
    /\ pc = "done"
    /\ result = "false"
    /\ ~BmcLoad(bookBin).loaded

\* A build failed in buildBookBin and left a partly written book.bin.
C1_Witness ==
  ~hit /\ failed = "buildBookBin" /\ result = "false" /\ bookBin = BadFile

C3_NotLoadableBeforeCommit ==
  /\ []((buildOpen \/ (~hit /\ pc \in PreCommitPcs)) => ~BmcLoad(bookBin).loaded)
  /\ [][(~CacheLoadable(bookBin) /\ CacheLoadable(bookBin')) =>
          (pc = "buildBookBin" /\ LastStep = "endWrite" /\ failed = "none")]_vars

\* Power was lost inside buildBookBin: both intermediate streams and a partly
\* written book.bin are on storage.
C3_Witness ==
  /\ buildOpen /\ pc = "idle"
  /\ {TmpSpineBin, TmpTocBin} \subseteq scratch /\ bookBin = BadFile

\* C4: on the build path load() returns true only when the builder object
\* was replaced by a new BookMetadataCache that loaded book.bin; when that
\* reload fails load() returns false and the Epub reports nothing loaded.
C4_VerifyByReload ==
  (~hit /\ Has("beginWrite")) =>
    /\ result = "true" =>
         Has("reload") /\ IsLoaded /\ ~bmc.buildMode /\ bmc = BmcLoad(bookBin)
    /\ failed = "reload" =>
         /\ pc = "done" /\ result = "false"
         /\ ~IsLoaded /\ GetSpineItemsCount = 0 /\ GetTitle = ""

\* buildBookBin reported success, the reload failed, load() returned.
C4_Witness ==
  ~hit /\ failed = "reload" /\ pc = "done" /\ Has("buildBookBin")

\* Steps that only a build takes.
BuilderSteps ==
  {"beginWrite", "beginContentOpfPass", "endContentOpfPass", "beginTocPass",
   "nav", "ncx", "endTocPass", "endWrite", "buildBookBin"}

\* The TOC pass of the running build is over.
TocPassOver == ~hit /\ (pc = "endTocPass" \/ Has("endTocPass"))

\* C5: the nav document is parsed exactly when the manifest named one, and
\* before the NCX document; the NCX document is parsed exactly when the nav
\* parse did not succeed and the manifest named an NCX document.  When the
\* nav parse fails and the NCX parse succeeds with at least one entry, the
\* TOC counts as parsed, the TOC pass does not fail the build, and the index
\* built and loaded has a non-empty TOC table.
C5_NavFirstNcxFallback ==
  /\ Has("nav") => tocNavItem # ""
  /\ Has("ncx") => tocHist.nav # "ok" /\ tocNcxItem # "" /\ LastStep # "nav"
  /\ \A i, j \in 1..Len(steps) : steps[i] = "nav" /\ steps[j] = "ncx" => i < j
  /\ TocPassOver =>
       /\ Has("nav") <=> tocNavItem # ""
       /\ Has("ncx") <=> (tocHist.nav # "ok" /\ tocNcxItem # "")
  /\ (tocHist.nav = "failed" /\ tocHist.ncx = "ok" /\ tocHist.ncxPushed >= 1) =>
       /\ tocParsed
       /\ failed # "toc"
       /\ pc = "endTocPass" \/ Has("endTocPass")
       /\ built.set => Len(built.tables.toc) >= 1
       /\ (pc = "done" /\ result = "true") => GetTocItemsCount >= 1

\* The nav parse failed, the NCX parse pushed entries and succeeded, and the
\* build succeeded.
C5_Witness ==
  /\ tocHist.nav = "failed" /\ tocHist.ncx = "ok" /\ tocHist.ncxPushed >= 1
  /\ pc = "done" /\ result = "true"

\* C6: the TOC parses never end the load: whatever their outcome the build
\* goes on to endTocPass; a build that returns false failed in a step other
\* than the TOC parses; and a build that succeeded without a parsed TOC has
\* loaded the spine table it built.
C6_NoTocIsNotFatal ==
  /\ [][(pc \in {"parseTocNav", "parseTocNcx"}) =>
          (pc' \in {"parseTocNcx", "endTocPass", "idle"})]_vars
  /\ [](failed # "toc")
  /\ []((pc = "done" /\ result = "false" /\ Has("beginWrite")) =>
          failed \in PreCommitSteps \cup {"reload"})
  /\ []((~hit /\ pc = "done" /\ result = "true" /\ Has("reload") /\ ~tocParsed) =>
          /\ IsLoaded
          /\ GetSpineItemsCount = Len(built.tables.spine)
          /\ bmc.spine = built.tables.spine)

\* Both TOC parses failed and the build succeeded with a spine.
C6_Witness ==
  /\ ~hit /\ pc = "done" /\ result = "true"
  /\ tocHist.nav = "failed" /\ tocHist.ncx = "failed"
  /\ GetSpineItemsCount >= 1

\* C7 as stated: all TOC entries of a finalized index come from one source
\* document.
C7_OneTocSource ==
  CacheLoadable(bookBin) =>
    \A t, u \in 1..Len(bookBin.toc) : bookBin.toc[t].src = bookBin.toc[u].src

C10_LoadedIndexImmutable ==
  [][(bmc.loaded /\ bmc'.loaded) => Tables(bmc') = Tables(bmc)]_vars

\* --------------------------------------------- claims on the built index
\* cumulativeSize of spine position i (0-based) of the loaded index, read
\* from the table; the total is that of the last position, 0 without one.
Cum(i) == bmc.spine[i + 1].cumulativeSize
SpinePositions == 0..(Len(bmc.spine) - 1)
TocPositions == 0..(Len(bmc.toc) - 1)
TotalSize ==
  IF ~IsLoaded \/ Len(bmc.spine) = 0 THEN 0 ELSE Cum(Len(bmc.spine) - 1)

\* C11 (as the index is built): the cumulative sizes of a loaded index with
\* at least two spine entries never decrease, they increase at every entry
\* whose item is not empty, and getBookSize() is the last of them.
C11_CumulativeSizesDoNotDecrease ==
  (IsLoaded /\ Len(bmc.spine) >= 2) =>
    /\ \A i \in SpinePositions \ {0} :
         /\ Cum(i) >= Cum(i - 1)
         /\ ItemSize(bmc.spine[i + 1].href) > 0 => Cum(i) > Cum(i - 1)
    /\ \A g \in GarbageEntries : GetBookSize(g) = Cum(Len(bmc.spine) - 1)
    /\ q.op = "getBookSize" => q.r.value = Cum(Len(bmc.spine) - 1)

\* C11 as stated: they increase strictly at every entry.
C11_CumulativeSizesIncrease ==
  (IsLoaded /\ Len(bmc.spine) >= 2) =>
    /\ \A i \in SpinePositions \ {0} : Cum(i) > Cum(i - 1)
    /\ \A g \in GarbageEntries : GetBookSize(g) = Cum(Len(bmc.spine) - 1)
    /\ q.op = "getBookSize" => q.r.value = Cum(Len(bmc.spine) - 1)

\* getBookSize() was asked of a book whose second spine item is empty.
C11_Witness ==
  /\ q.op = "getBookSize" /\ IsLoaded /\ Len(bmc.spine) >= 2
  /\ Cum(1) = Cum(0) /\ q.r.value > Cum(0)

\* C12 (as the code exposes it): a TOC entry whose href is that of a spine
\* entry has the position of a spine entry with that href as spineIndex, one
\* whose href is no spine entry's has -1; getTocItem hands the entry out as
\* stored, and getSpineIndexForTocIndex answers 0 where the entry has -1.
C12_TocResolvesByHref ==
  IsLoaded =>
    /\ \A t \in TocPositions :
         LET e == bmc.toc[t + 1] IN
         IF \E s \in SpinePositions : bmc.spine[s + 1].href = e.href
         THEN e.spineIndex \in SpinePositions /\
              bmc.spine[e.spineIndex + 1].href = e.href
         ELSE e.spineIndex = -1
    /\ (q.op = "getTocItem" /\ q.i \in TocPositions) =>
         q.r.entry = bmc.toc[q.i + 1]
    /\ (q.op = "getSpineIndexForTocIndex" /\ q.i \in TocPositions) =>
         q.r.value = IF bmc.toc[q.i + 1].spineIndex = -1
                     THEN 0 ELSE bmc.toc[q.i + 1].spineIndex

\* C12 as stated: the TOC-to-spine lookup answers -1 for an entry that has -1.
C12_TocLookupExposesMinusOne ==
  IsLoaded =>
    /\ \A t \in TocPositions :
         LET e == bmc.toc[t + 1] IN
         IF \E s \in SpinePositions : bmc.spine[s + 1].href = e.href
         THEN e.spineIndex \in SpinePositions /\
              bmc.spine[e.spineIndex + 1].href = e.href
         ELSE e.spineIndex = -1
    /\ (q.op = "getTocItem" /\ q.i \in TocPositions) =>
         q.r.entry = bmc.toc[q.i + 1]
    /\ (q.op = "getSpineIndexForTocIndex" /\ q.i \in TocPositions) =>
         q.r.value = bmc.toc[q.i + 1].spineIndex

\* The lookup was asked for a TOC entry that resolves to no spine item of a
\* book that has spine items.
C12_Witness ==
  /\ q.op = "getSpineIndexForTocIndex" /\ IsLoaded /\ q.i \in TocPositions
  /\ bmc.toc[q.i + 1].spineIndex = -1 /\ Len(bmc.spine) >= 1 /\ q.r.value = 0

\* C13: tocIndex of a spine position is the smallest TOC index whose entry
\* resolves to that position, and -1 exactly when no entry does; it is what
\* getTocIndexForSpineIndex answers.
C13_TocIndexIsFirstMatch ==
  IsLoaded =>
    /\ \A s \in SpinePositions :
         LET ti == bmc.spine[s + 1].tocIndex IN
         /\ ti = -1 <=> ~\E t \in TocPositions : bmc.toc[t + 1].spineIndex = s
         /\ ti # -1 =>
              /\ ti \in TocPositions
              /\ bmc.toc[ti + 1].spineIndex = s
              /\ \A u \in 0..(ti - 1) : bmc.toc[u + 1].spineIndex # s
    /\ (q.op = "getTocIndexForSpineIndex" /\ q.i \in SpinePositions) =>
         /\ q.r.value = -1 <=>
              ~\E t \in TocPositions : bmc.toc[t + 1].spineIndex = q.i
         /\ q.r.value # -1 =>
              /\ q.r.value \in TocPositions
              /\ bmc.toc[q.r.value + 1].spineIndex = q.i
              /\ \A u \in 0..(q.r.value - 1) : bmc.toc[u + 1].spineIndex # q.i

\* The query was asked for a spine position other than the first that two
\* TOC entries resolve to.
C13_Witness ==
  /\ q.op = "getTocIndexForSpineIndex" /\ IsLoaded /\ q.i \in SpinePositions \ {0}
  /\ \E t, u \in TocPositions :
       t < u /\ bmc.toc[t + 1].spineIndex = q.i /\ bmc.toc[u + 1].spineIndex = q.i
  /\ q.r.value >= 0

\* (i1, k1) <= (i2, k2) in lexicographic order.
LexLeq(i1, k1, i2, k2) == i1 < i2 \/ (i1 = i2 /\ k1 <= k2)

\* C14: for a loaded index of non-zero total size, a spine index i in range
\* and a fraction k / FracDen, calculateProgress(i, k / FracDen) is
\* (prev + k / FracDen * (cumulativeSize[i] - prev)) / cumulativeSize[count - 1]
\* with prev = cumulativeSize[i - 1], or 0 for i = 0.
C14_ProgressFormula ==
  (q.op = "calculateProgress" /\ TotalSize # 0 /\ q.i \in SpinePositions) =>
    LET prev == IF q.i = 0 THEN 0 ELSE Cum(q.i - 1) IN
    /\ q.r.divided
    /\ q.r.carry = 0
    /\ q.r.num * (FracDen * TotalSize) =
         (prev * FracDen + q.k * (Cum(q.i) - prev)) * q.r.den

\* The book with spine items of 1000, 2000 and 500 bytes: cumulative sizes
\* 1000, 3000, 3500, and calculateProgress(1, 1/2) = 2000 / 3500.
C14_Witness ==
  /\ q.op = "calculateProgress" /\ IsLoaded /\ Len(bmc.spine) = 3
  /\ Cum(0) = 1000 /\ Cum(1) = 3000 /\ Cum(2) = 3500
  /\ q.i = 1 /\ 2 * q.k = FracDen
  /\ q.r.carry = 0 /\ q.r.num * 3500 = 2000 * q.r.den

\* C15 as stated: whatever the index and the arguments, the value
\* calculateProgress returns is in [0, 1].
C15_ProgressWithinUnitInterval ==
  q.op = "calculateProgress" =>
    q.r.carry = 0 /\ 0 <= q.r.num /\ q.r.num <= q.r.den

C17_ZeroSizeGivesZero ==
  (q.op = "calculateProgress" /\ TotalSize = 0) =>
    q.r.num = 0 /\ q.r.carry = 0 /\ ~q.r.divided

\* Progress was asked inside the second of two empty spine items.
C17_Witness ==
  /\ q.op = "calculateProgress" /\ IsLoaded /\ Len(bmc.spine) >= 2
  /\ TotalSize = 0 /\ q.i = 1 /\ q.k > 0

\* C18 as stated: on a loaded index getSpineItem asks the cache for no
\* position outside [0, spineCount), and for an index outside that range it
\* asks for position 0.
C18_SpineAccessInRange ==
  (q.op = "getSpineItem" /\ IsLoaded) =>
    /\ q.r.at = -1 \/ q.r.at \in SpinePositions
    /\ q.i \notin SpinePositions =>
         q.r.at \in {-1, 0} /\ \A g \in GarbageEntries :
                                 GetSpineItem(0, g).at = q.r.at

\* ------------------------------------------ claims on covers and thumbnails
AssetOps == {"generateCoverBmp", "generateThumbBmp"}
\* The first two bytes are the bitmap magic.
HasMagic(bytes) == Len(bytes) >= 2 /\ bytes[1] = "B" /\ bytes[2] = "M"

\* C19: isValidThumbnailBmp(path) returns true iff the file exists, can be
\* opened, has non-zero size, and its first two bytes can be read and are
\* 'B','M'.  A zero-byte no-cover marker is never valid; a converted image
\* and the X-pattern marker are valid whenever they can be opened and read.
C19_OracleAcceptsReadableMagic ==
  q.op = "isValidThumbnailBmp" =>
    /\ q.r = "true" <=>
         /\ q.before.exists
         /\ q.log = <<"ok">>
         /\ Len(q.before.bytes) # 0
         /\ HasMagic(q.before.bytes)
    /\ q.before = File(<<>>) => q.r = "false"
    /\ (q.before.bytes \in {BmpImage, BmpMarker} /\ q.log = <<"ok">>) =>
         q.r = "true"

\* C19 as stated: true iff the file exists, has non-zero size and starts
\* with 'B','M'.
C19_OracleAcceptsMagic ==
  q.op = "isValidThumbnailBmp" =>
    (q.r = "true" <=>
       /\ q.before.exists
       /\ Len(q.before.bytes) # 0
       /\ HasMagic(q.before.bytes))

\* The X-pattern marker a generate call left in the cache directory was
\* looked at and accepted.
C19_Witness ==
  /\ q.op = "isValidThumbnailBmp" /\ q.path \in AssetPaths
  /\ q.before = File(BmpMarker) /\ q.r = "true"

EndsWith(str, suffix) ==
  /\ Len(str) >= Len(suffix)
  /\ SubSeq(str, Len(str) - Len(suffix) + 1, Len(str)) = suffix
\* The href's extension is .jpg or .jpeg, in any case of the letters.
IsJpegHref(href) ==
  EndsWith(ToLower(href), DotJpg) \/ EndsWith(ToLower(href), DotJpeg)
\* The log has this event.
Logged(log, event) == \E n \in 1..Len(log) : log[n] = event
\* The effective cover href of the loaded book is a name, and not a JPEG's.
UnsupportedCover ==
  /\ bmc.loaded
  /\ EffectiveCoverImageHref.href # EmptyHref
  /\ ~IsJpegHref(EffectiveCoverImageHref.href)
\* The effective cover href of the loaded book is a JPEG's.
JpegCover == bmc.loaded /\ IsJpegHref(EffectiveCoverImageHref.href)
\* The loaded book has no cover href and none of the candidates.
NoCover == bmc.loaded /\ EffectiveCoverImageHref.href = EmptyHref

\* C21 as stated, for the calls in which no storage operation fails: with an
\* effective cover href that is not a JPEG's, a generateCoverBmp call
\* returns true without running the converter and
\* leaves a file the oracle accepts: the first call writes the marker, a later
\* call returns at once and writes nothing.
C21_MarkerWrittenOnce ==
  [][(q' # q /\ q'.op = "generateCoverBmp" /\ UnsupportedCover
      /\ q'.faults = {}) =>
       (/\ q'.r = "true"
        /\ ~Logged(q'.log, "convert")
        /\ IsValidThumbnailBmp(files'[q'.path], "ok")
        /\ ~files[q'.path].exists => files'[q'.path] = File(BmpMarker)
        /\ files[q'.path].exists =>
             /\ q'.log = <<"oracle: valid">>
             /\ files' = files)]_vars

\* The converter ran in the call and failed.
ConverterFailed(log) == Logged(log, "convert") /\ ~Logged(log, "write image")

\* C22 as stated: when the effective cover href is a JPEG's and the converter
\* fails, the call leaves the X-pattern marker at the target path, and a call
\* that finds the marker there does not run the converter.
C22_FailedConversionLeavesMarker ==
  [][(q' # q /\ q'.op \in AssetOps /\ JpegCover) =>
       (/\ ConverterFailed(q'.log) =>
             /\ files'[q'.path] = File(BmpMarker)
             /\ IsValidThumbnailBmp(files'[q'.path], "ok")
        /\ (files[q'.path] = File(BmpMarker) /\ q'.faults = {}) =>
             ~Logged(q'.log, "convert"))]_vars

\* C23 as stated: a generateCoverBmp / generateThumbBmp call returns false
\* when the converter ran and failed, and true when the marker was written
\* without a conversion being tried.
C23_ReturnValueTellsConversionFailure ==
  q.op \in AssetOps =>
    /\ ConverterFailed(q.log) => q.r = "false"
    /\ (Logged(q.log, "write marker") /\ ~Logged(q.log, "convert")) =>
         q.r = "true"

\* The call went as far as resolving the effective cover href.
Resolved == q.op \in AssetOps /\ bmc.loaded /\ q.log # <<"oracle: valid">>

C25_NoCoverWritesNothing ==
  (q.op = "generateCoverBmp" /\ NoCover) =>
    /\ q.r = "false"
    /\ q.log = <<>>
    /\ \A cropped \in BOOLEAN : ~files[GetCoverBmpPath(cropped)].exists

\* The cropped cover of a book without any cover was asked for: every
\* candidate was probed.
C25_Witness ==
  /\ q.op = "generateCoverBmp" /\ NoCover
  /\ q.path = GetCoverBmpPath(TRUE)
  /\ q.probed = Len(GetCoverCandidates)

EndedInFailure(c) ==
  \/ NoCover /\ c.r = "false" /\ c.probed = Len(GetCoverCandidates)
  \/ Logged(c.log, "write marker")

\* C27 as stated, for calls in which no storage operation fails: the call
\* that follows, for the same asset, a call that ended in an asset failure
\* probes no candidate, extracts nothing and converts nothing.
C27_FailureCostPaidOnce ==
  [][(/\ q.op \in AssetOps /\ q'.op = q.op /\ q' # q
      /\ q'.path = q.path
      /\ q.faults = {} /\ q'.faults = {}
      /\ EndedInFailure(q)) =>
       (/\ q'.probed = 0
        /\ ~Logged(q'.log, "extract")
        /\ ~Logged(q'.log, "convert"))]_vars

\* ------------------------------------------------------- claims on the CSS
\* C28: CSS failures never change what load() returns.  A load() that went
\* through parseCssFiles returns true whether the rule cache loaded or not,
\* however the work on the CSS file ended and whether the rule cache was
\* saved or not; a load() on the cache-hit path returns true whether the
\* manifest re-read for the CSS file list succeeded or not; and load()
\* returns true exactly when the index is loaded.
C28_CssNeverChangesResult ==
  pc = "done" =>
    /\ q.op = "parseCssFiles" => result = "true"
    /\ hit => result = "true"
    /\ result = "true" <=> bmc.loaded

\* A load() on the cache-hit path could not re-read the manifest, failed on
\* the CSS file it knew of, could not save the rule cache, and returned true.
C28_Witness ==
  /\ pc = "done" /\ hit /\ failed \in {"container", "opf"}
  /\ q.op = "parseCssFiles" /\ ~q.cached /\ ~q.saved
  /\ q.file \in CssFileKinds \ {"parsed"}
  /\ result = "true"

\* ============================================================== Bluetooth
\* BluetoothManager (src/bluetooth).  enable(), disable(), update() and
\* disconnect() run on the main task; NimBLE calls onConnect() and
\* onDisconnect() on its host task, so a callback can run between any two
\* statements of the main task.  enabled, connected and lastActivityTime
\* are plain members shared by both tasks.

IDLE_TIMEOUT_MS == 30000
ADVERTISING_TIMEOUT_MS == 120000

\* millis() is read in steps of TickMs; an idle time above the advertising
\* timeout is kept as IdleCap, which every comparison treats alike.
TickMs == 30000
IdleCap == ADVERTISING_TIMEOUT_MS + TickMs

\* Connections a peer opens in one behaviour.
MaxConnects == 2

Begin(b) == IF b.initialized THEN b ELSE [b EXCEPT !.initialized = TRUE]

InitializeBLE(b) == [b EXCEPT !.server = TRUE]

StartAdvertising(b) ==
  IF ~b.server THEN b ELSE [b EXCEPT !.advertising = TRUE]

StopAdvertising(b) ==
  IF ~b.server THEN b ELSE [b EXCEPT !.advertising = FALSE]

\* disconnect(): asks NimBLE to terminate the link if it has one; connected
\* is left to the onDisconnect callback.
Disconnect(b) ==
  IF ~b.server \/ ~b.connected THEN b
  ELSE IF b.link # "none" THEN [b EXCEPT !.link = "closing"]
  ELSE b

OnConnect(b) == StopAdvertising([b EXCEPT !.connected = TRUE, !.idle = 0])

OnDisconnect(b) ==
  LET c == [b EXCEPT !.connected = FALSE, !.idle = 0]
  IN IF c.enabled THEN StartAdvertising(c) ELSE c

\* enable() up to startAdvertising(): from here on a peer can connect.
EnableAdvertise(b) ==
  LET b1 == Begin(b)
  IN IF b1.enabled THEN b1
     ELSE [StartAdvertising(InitializeBLE(b1)) EXCEPT !.at = "enable"]

\* enable(), its last two assignments.
EnableSetFlags(b) == [b EXCEPT !.enabled = TRUE, !.idle = 0, !.at = "loop"]

\* disable() up to the call of disconnect().
DisableDisconnect(b) ==
  IF ~b.enabled THEN b
  ELSE [(IF b.connected THEN Disconnect(b) ELSE b) EXCEPT !.at = "disable"]

\* NimBLEDevice::deinit(true) ends the host, the link with it.  Whether the
\* host still calls onDisconnect for a link it held is NimBLE's choice.
Deinit(b, delivered) ==
  LET c == IF delivered /\ b.link # "none" THEN OnDisconnect(b) ELSE b
  IN [c EXCEPT !.link = "none", !.advertising = FALSE]

\* disable() from stopAdvertising() to its end.
DisableTeardown(b, delivered) ==
  LET b1 == StopAdvertising(b)
      b2 == IF b1.server THEN [Deinit(b1, delivered) EXCEPT !.server = FALSE]
            ELSE b1
  IN [b2 EXCEPT !.enabled = FALSE, !.initialized = FALSE, !.at = "loop"]

\* update(): the advertising timeout while not connected, the idle timeout
\* while connected.
Update(b) ==
  IF ~b.enabled THEN b
  ELSE IF ~b.connected
    THEN IF b.idle > ADVERTISING_TIMEOUT_MS THEN DisableDisconnect(b) ELSE b
  ELSE IF b.idle > IDLE_TIMEOUT_MS THEN Disconnect(b)
  ELSE b

\* A step of the manager or of NimBLE leaves the Epub alone.
BleStep(b) ==
  /\ ble' = b
  /\ UNCHANGED <<archiveMeta, storage, pc, frame, hit, bookMetadata,
                 tocParsed, fields, bmc, steps, result, failed, tocHist,
                 built, buildOpen, first, second, archiveItems, files, q,
                 tocPass, keys, input, http>>

CallEnable == ble.at = "loop" /\ BleStep(EnableAdvertise(ble))

EnableReturns == ble.at = "enable" /\ BleStep(EnableSetFlags(ble))

CallDisable == ble.at = "loop" /\ BleStep(DisableDisconnect(ble))

DisableReturns ==
  /\ ble.at = "disable"
  /\ \E delivered \in BOOLEAN : BleStep(DisableTeardown(ble, delivered))

CallUpdate == ble.at = "loop" /\ BleStep(Update(ble))

CallDisconnect == ble.at = "loop" /\ BleStep(Disconnect(ble))

\* A peer answers the advertising: NimBLE opens the link and calls
\* ServerCallbacks::onConnect.
PeerConnects ==
  /\ ble.server /\ ble.advertising /\ ble.link = "none"
  /\ ble.connects < MaxConnects
  /\ BleStep([OnConnect(ble) EXCEPT !.link = "up", !.connects = @ + 1])

\* The link ends, by the peer or as disconnect() asked: NimBLE calls
\* ServerCallbacks::onDisconnect.
LinkCloses ==
  /\ ble.link # "none"
  /\ BleStep(OnDisconnect([ble EXCEPT !.link = "none"]))

\* A key report of the peer (onKeyPress), or resetActivityTimer().
KeyOrUserActivity ==
  /\ ble.link = "up" \/ ble.at = "loop"
  /\ BleStep([ble EXCEPT !.idle = 0])

Tick ==
  /\ ble.idle < IdleCap
  /\ BleStep([ble EXCEPT !.idle = @ + TickMs])

\* What happens with no key and no user activity.
NextBleIdle ==
  \/ CallEnable
  \/ EnableReturns
  \/ CallDisable
  \/ DisableReturns
  \/ CallUpdate
  \/ CallDisconnect
  \/ PeerConnects
  \/ LinkCloses
  \/ Tick

NextBle ==
  \/ NextBleIdle
  \/ KeyOrUserActivity

SpecBle == Init /\ [][NextBle]_vars

\* The main loop goes on calling update() and finishes the function it is
\* in, time passes, and NimBLE completes a termination it was asked for.
SpecBleIdle ==
  /\ Init
  /\ [][NextBleIdle]_vars
  /\ WF_vars(CallUpdate)
  /\ WF_vars(Tick)
  /\ WF_vars(EnableReturns)
  /\ WF_vars(DisableReturns)
  /\ WF_vars(ble.link = "closing" /\ LinkCloses)

\* ---------------------------------------------------- claims on Bluetooth
\* C29: in every state reachable by any interleaving of enable(),
\* disable(), update(), disconnect() and the callbacks onConnect() and
\* onDisconnect(), isConnected() implies isEnabled().
C29_ConnectedImpliesEnabled == ble.connected => ble.enabled

\* C30: with update() called again and again and no key or user activity,
\* an enabled BLE is eventually disabled, also when the enable() followed a
\* disable() made while a device was connected.
C30_EventuallyDisabled == ble.enabled ~> ~ble.enabled

\* ================================================== the TOC pass by chunks
\* Epub::load's TOC pass (Epub.cpp 344-356) with parseTocNavFile and
\* parseTocNcxFile followed chunk by chunk.  Sizes are counted in units of
\* which the 1024-byte buffer holds BufUnits.

\* Size of the largest nav / NCX document.
MaxDoc == 3
\* Units the chunk buffer holds.
BufUnits == 2

TocDocs == {"nav", "ncx"}
TocScratchPath(doc) == IF doc = "nav" THEN TmpNavPath ELSE TmpNcxPath

\* The pass as load() enters it, nav and ncx telling which hrefs the OPF
\* pass recorded.
TocPassStart(nav, ncx) ==
  [at |-> "try nav", nav |-> nav, ncx |-> ncx, cur |-> "nav", left |-> 0,
   stuck |-> FALSE,
   res |-> [d \in TocDocs |-> "not called"],
   got |-> [d \in TocDocs |-> "nothing"],
   fed |-> [d \in TocDocs |-> 0],
   cut |-> [d \in TocDocs |-> FALSE],
   kept |-> {}, tocParsed |-> FALSE, next |-> "none"]

\* return v from the parse of t.cur; load() assigns it to tocParsed.
TocReturn(t, v) ==
  [t EXCEPT !.res[t.cur] = IF v THEN "true" ELSE "false",
            !.tocParsed = v,
            !.at = IF t.cur = "nav" THEN "try ncx" ELSE "end"]

\* The parse up to its chunk loop: create the scratch file, stream the
\* archive entry into it (the result of readItemContentsToStream is not
\* looked at), reopen it, set the parser up, allocate the buffer.
\*   how: "no open", "no reopen", "no setup" or "go"
\*   got: "failed", "empty" or "data", what the extraction did; size: the
\*   size the scratch file has after it.
TocParseSetup(t, how, got, size) ==
  IF how = "no open" THEN TocReturn(t, FALSE)
  ELSE LET u == [t EXCEPT !.got[t.cur] = got,
                          !.kept = @ \cup {TocScratchPath(t.cur)}]
       IN IF how \in {"no reopen", "no setup"} THEN TocReturn(u, FALSE)
          ELSE [u EXCEPT !.at = "loop", !.left = size, !.stuck = FALSE]

\* After the loop: close and remove the scratch file, return true.
TocParseFinish(t) ==
  TocReturn([t EXCEPT !.kept = @ \ {TocScratchPath(t.cur)}], TRUE)

\* A loop that goes on feeding after a short count.
TocFeedOn(t, n, p) ==
  [t EXCEPT !.left = @ - n, !.cut[t.cur] = @ \/ p # n,
            !.fed[t.cur] = @ + (IF n > 0 THEN 1 ELSE 0)]

\* parser.write consumed p of the n units supplied.
TocFeed(t, n, p) ==
  IF p # n THEN TocReturn([t EXCEPT !.cut[t.cur] = TRUE,
                                    !.fed[t.cur] = @ + (IF n > 0 THEN 1 ELSE 0)],
                          FALSE)
  ELSE [t EXCEPT !.left = @ - n,
                 !.fed[t.cur] = @ + (IF n > 0 THEN 1 ELSE 0)]

\* One turn of parseTocNcxFile's loop: read n units, stop on an empty read.
NcxLoopTurn(t, n, p) ==
  IF n = 0 THEN TocParseFinish(t) ELSE TocFeed(t, n, p)

\* One turn of parseTocNavFile's loop: read n units and feed them.
NavLoopTurn(t, n, p) == TocFeed(t, n, p)

TocLoopTurn(t, n, p) ==
  IF t.cur = "nav" THEN NavLoopTurn(t, n, p) ELSE NcxLoopTurn(t, n, p)

\* What read() can return: nothing from a file that stalls, else up to a
\* buffer of what is left.
TocReads(t) ==
  IF t.stuck THEN {0}
  ELSE 1..(IF t.left < BufUnits THEN t.left ELSE BufUnits)

TocStep(t) ==
  /\ tocPass' = t
  /\ UNCHANGED <<archiveMeta, storage, pc, frame, hit, bookMetadata,
                 tocParsed, fields, bmc, steps, result, failed, tocHist,
                 built, buildOpen, first, second, archiveItems, files, q,
                 ble, keys, input, http>>

\* load() reaches the TOC pass.
TocPassBegins ==
  /\ tocPass.at = "none"
  /\ \E nav, ncx \in BOOLEAN : TocStep(TocPassStart(nav, ncx))

\* if (!tocNavItem.empty()) tocParsed = parseTocNavFile();
TocTryNav ==
  /\ tocPass.at = "try nav"
  /\ TocStep(IF tocPass.nav THEN [tocPass EXCEPT !.cur = "nav", !.at = "setup"]
             ELSE [tocPass EXCEPT !.at = "try ncx"])

\* if (!tocParsed && !tocNcxItem.empty()) tocParsed = parseTocNcxFile();
TocTryNcx ==
  /\ tocPass.at = "try ncx"
  /\ TocStep(IF ~tocPass.tocParsed /\ tocPass.ncx
             THEN [tocPass EXCEPT !.cur = "ncx", !.at = "setup"]
             ELSE [tocPass EXCEPT !.at = "end"])

TocSetup ==
  /\ tocPass.at = "setup"
  /\ \E how \in {"no open", "no reopen", "no setup", "go"},
        ex \in {<<"failed", 0>>, <<"failed", 1>>, <<"empty", 0>>}
                 \cup {<<"data", n>> : n \in 1..MaxDoc} :
       TocStep(TocParseSetup(tocPass, how, ex[1], ex[2]))

\* The scratch file stops giving data: read() returns 0 from now on while
\* available() still reports the rest.
TocFileStalls ==
  /\ tocPass.at = "loop" /\ ~tocPass.stuck /\ tocPass.left > 0
  /\ TocStep([tocPass EXCEPT !.stuck = TRUE])

\* while (file.available()) { read; write; compare }
TocLoop ==
  /\ tocPass.at = "loop"
  /\ IF tocPass.left = 0 THEN TocStep(TocParseFinish(tocPass))
     ELSE \E n \in TocReads(tocPass) : \E p \in 0..n :
            TocStep(TocLoopTurn(tocPass, n, p))

\* Whatever the parses returned, load() goes on.
TocPassEnds ==
  /\ tocPass.at = "end"
  /\ TocStep([tocPass EXCEPT !.at = "over",
                             !.next = AfterTocParse(tocPass.tocParsed)])

NextToc ==
  \/ TocPassBegins
  \/ TocTryNav
  \/ TocTryNcx
  \/ TocSetup
  \/ TocFileStalls
  \/ TocLoop
  \/ TocPassEnds

SpecToc == Init /\ [][NextToc]_vars

\* The task running load() is not held up: a step it can take, it takes.
SpecTocRuns == SpecToc /\ WF_vars(NextToc)

\* ------------------------------------------------ claims on the TOC chunks
\* C31: when a write(chunk) of the nav or NCX parser returns a count other
\* than the bytes supplied, the parse returns false at once, no further
\* chunk goes to that parser, and the pass alone is given up: a declared
\* NCX is tried after a cut nav parse and load() goes on.
C31_ShortWriteAbortsThePass ==
  [][/\ \A d \in TocDocs :
          (tocPass.at # "none" /\ tocPass.cut[d]) =>
            /\ tocPass.res[d] = "false"
            /\ tocPass'.at # "none" => tocPass'.fed[d] = tocPass.fed[d]
     /\ (tocPass'.at = "over" /\ tocPass'.cut["nav"]) =>
            /\ tocPass'.ncx => tocPass'.res["ncx"] # "not called"
            /\ tocPass'.next = "endTocPass"]_vars

C31_Witness ==
  /\ tocPass.at = "over"
  /\ tocPass.cut["nav"] /\ tocPass.fed["nav"] = 2
  /\ tocPass.res["ncx"] = "true" /\ tocPass.fed["ncx"] = 2

\* C33: parseTocNavFile / parseTocNcxFile returns true only if the entry
\* was streamed out of the archive into the scratch file; a failed or empty
\* extraction makes the parse report failure.
C33_TrueOnlyIfExtracted ==
  tocPass.at # "none" =>
    \A d \in TocDocs : tocPass.res[d] = "true" => tocPass.got[d] = "data"

\* C34: the TOC pass terminates whatever the scratch file does, a read of
\* zero bytes while available() reports data included.
C34_TocPassTerminates == (tocPass.at # "none") ~> (tocPass.at = "over")

\* ======================================================= Bluetooth keys
\* BluetoothManager::onKeyPress / onKeyRelease, called by InputCallbacks on
\* the NimBLE host task, one report after the other.

\* HID key codes taken as examples: a, Enter, Space, Page Down, and a code
\* no table maps.
KeyA == 4
KeyEnter == 40
KeySpace == 44
KeyPageDown == 78
KeyUnmapped == 101
KeyCodes == {KeyA, KeyEnter, KeySpace, KeyPageDown, KeyUnmapped}
\* No modifier, or left shift.
KeyModifiers == {0, 2}

Callbacks == {"button", "char", "special"}

\* mapKeyToChar: the callbacks it calls for key code k.
MapKeyToChar(ks, m, k) ==
  IF ks.special /\ k \in {42, 40, 41, 43} THEN {"special"}
  ELSE IF ~ks.char THEN {}
  ELSE IF k \in (4..39) \cup (44..49) \cup (51..56) THEN {"char"}
  ELSE {}

\* mapKeyToButton: buttonCallback(i, true), delay, buttonCallback(i, false)
\* for a key code that has a button.
MapKeyToButton(ks, m, k) ==
  IF ~ks.button THEN {}
  ELSE IF k \in {80, 79, 82, 81, 40, 41, 42, 44} THEN {"button"}
  ELSE IF k \in {75, 78} /\ m = 0 THEN {"button"}
  ELSE {}

\* onKeyPress without its first test.
OnKeyPressUndebounced(ks, m, k) ==
  [state |-> [ks EXCEPT !.modifiers = m, !.lastKeyCode = k,
                        !.keyProcessed = FALSE, !.fresh = TRUE],
   called |-> MapKeyToChar(ks, m, k) \cup MapKeyToButton(ks, m, k)]

\* onKeyPress(modifiers, keyCode): the new fields and the callbacks called.
OnKeyPress(ks, m, k) ==
  IF ~ks.keyProcessed /\ k = ks.lastKeyCode
  THEN [state |-> ks, called |-> {}]
  ELSE [state |-> [ks EXCEPT !.modifiers = m, !.lastKeyCode = k,
                             !.keyProcessed = FALSE, !.fresh = TRUE],
        called |-> MapKeyToChar(ks, m, k) \cup MapKeyToButton(ks, m, k)]

OnKeyRelease(ks) ==
  [ks EXCEPT !.keyProcessed = TRUE, !.lastKeyCode = 0, !.modifiers = 0,
             !.fresh = TRUE]

Once(n, given) == IF ~given THEN n ELSE IF n = "none" THEN "once" ELSE "more"

KeysStep(ks) ==
  /\ keys' = ks
  /\ UNCHANGED <<archiveMeta, storage, pc, frame, hit, bookMetadata,
                 tocParsed, fields, bmc, steps, result, failed, tocHist,
                 built, buildOpen, first, second, archiveItems, files, q,
                 ble, tocPass, input, http>>

\* A key report with a key code: the press joins the run of presses of the
\* same key that no release has ended, or begins a run.
KeyPressed ==
  \E m \in KeyModifiers, k \in KeyCodes :
    LET o == OnKeyPress(keys, m, k)
        again == keys.runOpen /\ keys.runKey = k
        before == IF again THEN keys.calls ELSE KeysOff.calls
    IN KeysStep([o.state EXCEPT
                   !.last = IF again THEN "repeat" ELSE "press",
                   !.runKey = k, !.runOpen = TRUE,
                   !.calls = [b \in Callbacks |->
                                Once(before[b], b \in o.called)]])

\* A key report without a key code.
KeyReleased ==
  KeysStep([OnKeyRelease(keys) EXCEPT !.last = "release", !.runOpen = FALSE])

\* setButtonCallback, setCharCallback, setSpecialKeyCallback.
SetCallback ==
  \E b \in Callbacks, on \in BOOLEAN :
    /\ keys[b] # on
    /\ KeysStep([keys EXCEPT ![b] = on, !.last = "set"])

\* millis() moves on.
KeysTimePasses ==
  /\ keys.fresh
  /\ KeysStep([keys EXCEPT !.fresh = FALSE, !.last = "time"])

NextKeys ==
  \/ KeyPressed
  \/ KeyReleased
  \/ SetCallback
  \/ KeysTimePasses

SpecKeys == Init /\ [][NextKeys]_vars

\* C32: in a run of presses of one key code that no release has ended,
\* each callback is given at most one press, and a repeated press changes
\* no field of the manager and calls nothing.
C32_RepeatedPressIgnored ==
  [][/\ keys'.runOpen => \A b \in Callbacks : keys'.calls[b] # "more"
     /\ keys'.last = "repeat" =>
          /\ keys'.calls = keys.calls
          /\ \A f \in {"modifiers", "lastKeyCode", "keyProcessed", "button",
                       "char", "special", "fresh"} : keys'[f] = keys[f]]_vars

C32_Witness ==
  /\ keys.last = "repeat" /\ keys.runKey = KeyEnter
  /\ keys.modifiers = 0 /\ ~keys.fresh
  /\ keys.calls["button"] = "once" /\ keys.calls["special"] = "once"

\* ------------------------------------------- claims on the extension check
\* C35: for every non-empty effective cover href, of any length, the
\* extension check of generateCoverBmp / generateThumbBmp completes and
\* takes the href for a JPEG's iff its lower-cased form ends in .jpg or
\* .jpeg; no substring position lies outside the string.
C35_ExtensionCheckCompletes ==
  LET href == EffectiveCoverImageHref.href IN
  (/\ q.op \in {"generateCoverBmp", "generateThumbBmp"}
   /\ bmc.loaded /\ href # EmptyHref) =>
    /\ q.r # "aborted"
    /\ ~ExtensionCheck(href).thrown
    /\ ExtensionCheck(href).isJpg <=> IsJpegHref(href)

\* ----------------------------------------------- claims on scratch files
\* C36: scratch files do not outlive the operation that made them: after a
\* load() that built the index no toc.nav and no toc.ncx is left in the
\* cache directory (.tmp.css is removed on every path of parseCssFiles and
\* is no member of scratch), and when generateCoverBmp or generateThumbBmp
\* returns, .cover.jpg does not exist.
C36_ScratchFilesRemoved ==
  /\ (pc = "done" /\ result = "true" /\ ~hit) =>
       scratch \cap {TmpNavPath, TmpNcxPath} = {}
  /\ (q.op \in {"generateCoverBmp", "generateThumbBmp"} /\ q.r # "aborted") =>
       ScratchCoverJpg \notin scratch

\* ------------------------------------------- claims on load without build
\* C37: load(buildIfMissing = false) on a cache miss (book.bin absent or
\* not loadable) returns false and leaves storage as it was, having run no
\* step that reads the archive; the Epub is not loaded afterwards, its title
\* is empty and its spine and TOC counts are 0.
C37_MissWithoutBuildChangesNothing ==
  [][/\ (pc # "tryCache" /\ pc' = "tryCache") =>
          (UNCHANGED storage /\ steps' = <<>>)
     /\ (/\ pc = "tryCache" /\ pc' # "idle"
         /\ ~buildIfMissing /\ ~BmcLoad(bookBin).loaded) =>
          /\ pc' = "done" /\ result' = "false"
          /\ UNCHANGED storage
          /\ steps' = <<>>
          /\ ~IsLoaded'
          /\ GetTitle' = "" /\ GetSpineItemsCount' = 0
          /\ GetTocItemsCount' = 0]_vars

C37_Witness ==
  /\ pc = "done" /\ result = "false" /\ ~buildIfMissing
  /\ bookBin = BadFile /\ steps = <<>> /\ ~IsLoaded

\* ================================================== virtual button presses
\* MappedInputManager: the BLE key callback injects presses and releases on
\* the NimBLE host task; the main loop runs frames of update() followed by
\* the activity's polls.

\* Button indexes injected: BTN_BACK, BTN_UP, BTN_POWER and one above 6.
InjectedIndexes == {0, 4, 6, 7}
\* HalGPIO's indexes that wasPressed() looks up for some logical button:
\* BTN_BACK, BTN_CONFIRM, BTN_LEFT, BTN_RIGHT, BTN_UP, BTN_DOWN.
PolledIndexes == 0..5

InjectButtonPress(m, i) ==
  IF i > 6 THEN m
  ELSE [m EXCEPT !.virtualButtonPressedEvents = @ \cup {i},
                 !.virtualButtonState = @ \cup {i}]

InjectButtonRelease(m, i) ==
  IF i > 6 THEN m
  ELSE [m EXCEPT !.virtualButtonReleasedEvents = @ \cup {i},
                 !.virtualButtonState = @ \ {i}]

\* update(): the events of the frame before are cleared.
UpdateInput(m) ==
  [m EXCEPT !.virtualButtonPressedEvents = {},
            !.virtualButtonReleasedEvents = {}]

WasVirtualPressed(m, i) == i \in m.virtualButtonPressedEvents

\* The indexes for which wasPressed() of some logical button is true by a
\* virtual press.
WasPressed(m) == {i \in PolledIndexes : WasVirtualPressed(m, i)}

InputStep(m) ==
  /\ input' = m
  /\ UNCHANGED <<archiveMeta, storage, pc, frame, hit, bookMetadata,
                 tocParsed, fields, bmc, steps, result, failed, tocHist,
                 built, buildOpen, first, second, archiveItems, files, q,
                 ble, tocPass, keys, http>>

\* buttonCallback(i, true), at any point of the frame.
CallInjectButtonPress ==
  \E i \in InjectedIndexes :
    LET m == InjectButtonPress(input, i)
        new == IF i > 6 THEN {} ELSE {i}
    IN InputStep([m EXCEPT !.since = @ \cup new, !.unseen = @ \cup new])

\* buttonCallback(i, false).
CallInjectButtonRelease ==
  \E i \in InjectedIndexes : InputStep(InjectButtonRelease(input, i))

\* The main loop begins a frame.
FrameUpdate ==
  /\ input.at = "update"
  /\ InputStep([UpdateInput(input) EXCEPT
                  !.at = "poll", !.since = {}, !.unseen = {},
                  !.lost = @ \cup input.unseen])

\* The activity polls wasPressed() of every logical button.
FramePoll ==
  /\ input.at = "poll"
  /\ InputStep([input EXCEPT
                  !.at = "update",
                  !.unseen = @ \ WasPressed(input),
                  !.late = @ \cup (WasPressed(input) \ input.since)])

NextInput ==
  \/ CallInjectButtonPress
  \/ CallInjectButtonRelease
  \/ FrameUpdate
  \/ FramePoll

SpecInput == Init /\ [][NextInput]_vars

\* C38: no injected press with index <= 6 is lost: it is reported by
\* wasPressed() in a frame before update() clears the pressed events, and in
\* no frame after the clearing.
C38_NoInjectedPressLost == input.lost = {} /\ input.late = {}

\* ============================================================== downloads
\* HttpDownloader::downloadToFile.  Sizes are counted in units of which the
\* buffer holds ChunkUnits.

\* Bytes of the longest response body, and of the largest Content-Length.
MaxBody == 3
\* DOWNLOAD_CHUNK_SIZE, in units.
ChunkUnits == 2
\* size_t has this many values.
SizeModulus == 16

\* const size_t contentLength = http.getSize(): getSize() is an int, -1 for
\* a response without Content-Length.
ContentLengthOf(getSize) == getSize % SizeModulus

\* http.connected(): the connection is up, or the stream still holds bytes.
HttpConnected(h) == h.open \/ h.avail > 0

HttpReturn(h, r) == [h EXCEPT !.at = "returned", !.r = r]

NoDest == [exists |-> FALSE, size |-> 0]

\* downloadToFile up to its loop.
\*   how: "dir", "get", "open", "stream" for the step that fails, or "go"
\*   header: what getSize() returns, the Content-Length of the response or
\*   -1 without one; body: the bytes the server is going to send.
DownloadBegin(h, how, header, body) ==
  IF how = "dir" THEN HttpReturn(h, "DIR_ERROR")
  ELSE IF how = "get" THEN HttpReturn(h, "HTTP_ERROR")
  ELSE LET g == [h EXCEPT !.header = header,
                          !.contentLength = ContentLengthOf(header),
                          !.toCome = body, !.open = TRUE, !.dest = NoDest]
       IN IF how = "open" THEN HttpReturn(g, "FILE_ERROR")
          ELSE LET f == [g EXCEPT !.opened = TRUE,
                                  !.dest = [exists |-> TRUE, size |-> 0]]
               IN IF how = "stream"
                  THEN HttpReturn([f EXCEPT !.dest = NoDest], "HTTP_ERROR")
                  ELSE [f EXCEPT !.at = "loop"]

\* After the loop: the size is verified when contentLength > 0.
DownloadFinish(h) ==
  IF h.contentLength > 0 /\ h.downloaded # h.contentLength
  THEN HttpReturn([h EXCEPT !.dest = NoDest], "HTTP_ERROR")
  ELSE HttpReturn(h, "OK")

\* One turn of the loop: bytesRead of the bytes available are read, written
\* of them reach the file.
DownloadTurn(h, bytesRead, written) ==
  IF ~(HttpConnected(h) /\ (h.contentLength = 0 \/ h.downloaded < h.contentLength))
  THEN DownloadFinish(h)
  ELSE IF h.avail = 0 THEN h
  ELSE IF bytesRead = 0 THEN DownloadFinish(h)
  ELSE LET g == [h EXCEPT !.avail = @ - bytesRead,
                          !.received = @ + bytesRead,
                          !.dest.size = @ + written]
       IN IF written # bytesRead
          THEN HttpReturn([g EXCEPT !.dest = NoDest], "FILE_ERROR")
          ELSE [g EXCEPT !.downloaded = (@ + bytesRead) % SizeModulus]

HttpStep(h) ==
  /\ http' = h
  /\ UNCHANGED <<archiveMeta, storage, pc, frame, hit, bookMetadata,
                 tocParsed, fields, bmc, steps, result, failed, tocHist,
                 built, buildOpen, first, second, archiveItems, files, q,
                 ble, tocPass, keys, input>>

\* downloadToFile is called; a file of an earlier download may be there.
CallDownloadToFile ==
  /\ http.at = "idle"
  /\ \E how \in {"dir", "get", "open", "stream", "go"},
        header \in -1..MaxBody, body \in 0..MaxBody,
        old \in {NoDest, [exists |-> TRUE, size |-> 1]} :
       HttpStep(DownloadBegin([http EXCEPT !.dest = old], how, header, body))

DownloadLoop ==
  /\ http.at = "loop"
  /\ LET toRead == IF http.avail < ChunkUnits THEN http.avail ELSE ChunkUnits
     IN \E bytesRead \in 0..toRead : \E written \in 0..bytesRead :
          HttpStep(DownloadTurn(http, bytesRead, written))

\* Bytes of the body arrive.
ServerSends ==
  /\ http.at = "loop" /\ http.open /\ http.toCome > 0
  /\ \E n \in 1..http.toCome :
       HttpStep([http EXCEPT !.toCome = @ - n, !.avail = @ + n])

\* The server, or the network, ends the connection.
ServerCloses ==
  /\ http.at = "loop" /\ http.open
  /\ HttpStep([http EXCEPT !.open = FALSE])

NextHttp ==
  \/ CallDownloadToFile
  \/ DownloadLoop
  \/ ServerSends
  \/ ServerCloses

SpecHttp == Init /\ [][NextHttp]_vars

\* C39: downloadToFile returns OK only if every byte received is in the
\* file at destPath and, when the Content-Length is known, the file has
\* exactly that many bytes; when it returns another value after the file
\* was opened for writing, no file is at destPath.
C39_OkOnlyIfComplete ==
  http.at = "returned" =>
    /\ http.r = "OK" =>
         /\ http.dest.exists /\ http.dest.size = http.received
         /\ http.header # -1 => http.dest.size = http.header
    /\ (http.r # "OK" /\ http.opened) => ~http.dest.exists

====
